---- MODULE Spec2Model ----
(***************************************************************************)
(* A model of the spaced-repetition scheduler (SpacedRepetitionAlgorithm)  *)
(* and of the local-storage collections it reads and writes (CardStorage,  *)
(* ProgressStorage), of backup and restore (BackupStorage) and of the      *)
(* study streak (StudyUtils.calculateStudyStreak).                         *)
(*                                                                         *)
(* Numbers.  easeFactor is a JavaScript double that only ever moves in     *)
(* steps of 0.15 and 0.1 between 1.3 and 2.5; it is kept here in           *)
(* hundredths (130 .. 250), which gives the intervals the doubles give at  *)
(* every value reached here.  Math.round rounds half up.  Time is kept in  *)
(* minutes; a calendar day is MinutesPerDay minutes (no DST change inside  *)
(* the modelled window).  Response times are whole seconds; averages and   *)
(* the accuracy percentage are exact fractions [n, d].                     *)
(***************************************************************************)
EXTENDS Integers, Sequences, FiniteSets, TLC

VARIABLES
    now,          \* the wall clock (new Date()), in minutes
    cards,        \* localStorage "cards" as CardStorage.getAll() reads it
    progress,     \* localStorage "progress" as ProgressStorage.get() reads it
    lastReview,   \* the last processReview call: its arguments and its return value
    reviewCalls,  \* number of processReview calls made so far
    queueCall,    \* the last getStudyQueue call: its arguments, its locals, its return value
    sessions,     \* localStorage "sessions" as SessionStorage.getAll() reads it
    categories,   \* localStorage "categories" as CategoryStorage.getAll() reads it
    settings,     \* localStorage "settings" as SettingsStorage.get() reads it
    exportCall,   \* the last exportData call: the store it read, the document it returned
    importCall,   \* the last importData call: its argument, its return value
    streakCall,   \* the last calculateStudyStreak call: its return value
    damage,       \* per collection, what became of the text localStorage holds for it
    loadCall,     \* the last call of the loaders: what each returned
    page,         \* the React state of the study page
    generated     \* number of ids generateId has returned so far

vars == <<now, cards, progress, lastReview, reviewCalls, queueCall,
          sessions, categories, settings, exportCall, importCall, streakCall,
          damage, loadCall, page, generated>>

\* What backup, restore and the streak neither read nor write.
otherVars == <<damage, loadCall, page, generated>>

\* What the scheduler neither reads nor writes.
backupVars == <<sessions, categories, settings, exportCall, importCall, streakCall,
                otherVars>>

(***************************************************************************)
(* Bounds of the model.                                                    *)
(***************************************************************************)
MaxReviews == 2      \* processReview calls in one behaviour of the application
MaxSeedReviews == 1  \* processReview calls on a persisted card
MaxSeqReviews == 2   \* processReview calls in a sequence of reviews
MaxLifetimeReviews == 4  \* processReview calls from an empty history
MaxDays == 1         \* whole days the clock may advance
MaxMinutes == 1      \* single minutes the clock may advance
MaxCards == 2        \* cards CardStorage.add may create in one behaviour
QMaxCards == 6       \* stored cards in the queue-construction specification
QMaxNew == 2         \* of which cards that are new and not due
QMaxBoth == 1        \* of which cards that are due and new at once
BMaxCards == 2       \* stored cards, and sessions, in the backup specification
StreakToday == 4     \* the day, counted from day 0, on which the streak is computed
SMaxBack == 3        \* days before that day that may hold a DailyStat
SMaxStats == 4       \* DailyStats stored in the streak specification

(***************************************************************************)
(* Program constants.                                                      *)
(***************************************************************************)
MinEase == 130           \* Math.max(1.3, ...)
MaxEase == 250           \* Math.min(2.5, ...)
HardPenalty == 15        \* easeFactor - 0.15
EasyBonus == 10          \* easeFactor + 0.1
InitialEase == 250       \* CardStorage.add: easeFactor: 2.5
InitialInterval == 1     \* CardStorage.add: interval: 1
MinutesPerDay == 1440    \* Date.setDate(getDate() + 1)
AgainDelay == 1          \* setMinutes(getMinutes() + 1)
DefaultMaxNewCards == 10 \* getStudyQueue(maxNewCards = 10, ...)
DefaultMaxReviews == 50  \* getStudyQueue(..., maxReviews = 50)

Difficulty == {"again", "hard", "good", "easy"}

None == [kind |-> "none"]

Max(a, b) == IF a >= b THEN a ELSE b
Min(a, b) == IF a <= b THEN a ELSE b

RECURSIVE Gcd(_, _)
Gcd(a, b) == IF b = 0 THEN a ELSE Gcd(b, a % b)

\* An exact non-negative fraction in lowest terms.
Frac(n, d) == LET g == Gcd(n, d) IN [n |-> n \div g, d |-> d \div g]

\* A field that was never set (averageResponseTime?: number).
Undefined == [n |-> 0, d |-> 0]

\* JavaScript truthiness of a number | undefined: false for undefined and for 0.
Truthy(x) == x.d # 0 /\ x.n # 0

\* Math.round of a non-negative value given as num / den: floor(x + 1/2).
MathRound(num, den) == (2 * num + den) \div (2 * den)

(***************************************************************************)
(* SpacedRepetitionAlgorithm.calculateNext, piece by piece.                *)
(***************************************************************************)

\* As hardEaseFactor, without the floor of 1.3.
hardEaseFactorNoFloor(easeFactor) == easeFactor - HardPenalty

\* case HARD: easeFactor = Math.max(1.3, easeFactor - 0.15)
hardEaseFactor(easeFactor) == Max(MinEase, easeFactor - HardPenalty)

\* As easyEaseFactor, without the cap of 2.5.
easyEaseFactorNoCap(easeFactor) == easeFactor + EasyBonus

\* case EASY: easeFactor = Math.min(2.5, easeFactor + 0.1)
easyEaseFactor(easeFactor) == Min(MaxEase, easeFactor + EasyBonus)

\* The easeFactor after the switch; AGAIN and GOOD leave it alone.
nextEaseFactor(easeFactor, difficulty) ==
    CASE difficulty = "hard" -> hardEaseFactor(easeFactor)
      [] difficulty = "easy" -> easyEaseFactor(easeFactor)
      [] OTHER -> easeFactor

\* As nextRepetitions, 'easy' counting for two repetitions.
nextRepetitionsEasyTwice(repetitions, difficulty) ==
    IF difficulty = "again" THEN 0
    ELSE IF difficulty = "easy" THEN repetitions + 2
    ELSE repetitions + 1

\* repetitions after the switch: 0 for AGAIN, else 0 -> 1, 1 -> 2, n -> n + 1.
nextRepetitions(repetitions, difficulty) ==
    IF difficulty = "again" THEN 0
    ELSE IF repetitions = 0 THEN 1
    ELSE IF repetitions = 1 THEN 2
    ELSE repetitions + 1

\* As hardInterval, without the Math.max(1, ...).
hardIntervalNoMin(interval, repetitions, ef) ==
    IF repetitions = 0 THEN 1
    ELSE IF repetitions = 1 THEN 2
    ELSE MathRound(interval * ef * 8, 1000)

\* case HARD; ef is the easeFactor already lowered.
hardInterval(interval, repetitions, ef) ==
    IF repetitions = 0 THEN 1
    ELSE IF repetitions = 1 THEN 2
    ELSE Max(1, MathRound(interval * ef * 8, 1000))

\* As goodInterval, truncating instead of rounding.
goodIntervalTruncated(interval, repetitions, ef) ==
    IF repetitions = 0 THEN 1
    ELSE IF repetitions = 1 THEN 6
    ELSE (interval * ef) \div 100

\* case GOOD.
goodInterval(interval, repetitions, ef) ==
    IF repetitions = 0 THEN 1
    ELSE IF repetitions = 1 THEN 6
    ELSE MathRound(interval * ef, 100)

\* As easyInterval, without the factor 1.3.
easyIntervalNoBonus(interval, repetitions, ef) ==
    IF repetitions = 0 THEN 4
    ELSE IF repetitions = 1 THEN 8
    ELSE MathRound(interval * ef, 100)

\* case EASY; ef is the easeFactor already raised.
easyInterval(interval, repetitions, ef) ==
    IF repetitions = 0 THEN 4
    ELSE IF repetitions = 1 THEN 8
    ELSE MathRound(interval * ef * 13, 1000)

\* As nextInterval, 'again' leaving the interval as it was.
nextIntervalKeptOnAgain(interval, repetitions, ef, difficulty) ==
    CASE difficulty = "again" -> interval
      [] difficulty = "hard" -> hardInterval(interval, repetitions, ef)
      [] difficulty = "good" -> goodInterval(interval, repetitions, ef)
      [] difficulty = "easy" -> easyInterval(interval, repetitions, ef)

\* interval after the switch; ef is the easeFactor after the switch.
nextInterval(interval, repetitions, ef, difficulty) ==
    CASE difficulty = "again" -> 0
      [] difficulty = "hard" -> hardInterval(interval, repetitions, ef)
      [] difficulty = "good" -> goodInterval(interval, repetitions, ef)
      [] difficulty = "easy" -> easyInterval(interval, repetitions, ef)

\* As nextReviewDateAt, without the one-minute case of AGAIN.
nextReviewDateAtDaysOnly(t, interval, difficulty) == t + interval * MinutesPerDay

\* nextReviewDate: one minute for AGAIN, else setDate(getDate() + interval).
nextReviewDateAt(t, interval, difficulty) ==
    IF difficulty = "again" THEN t + AgainDelay
    ELSE t + interval * MinutesPerDay

\* As calculateNext, dating the next review by the interval the card came with.
calculateNextOldInterval(card, difficulty, t) ==
    LET ef == nextEaseFactor(card.easeFactor, difficulty)
        iv == nextInterval(card.interval, card.repetitions, ef, difficulty)
    IN  [easeFactor |-> ef,
         interval |-> iv,
         repetitions |-> nextRepetitions(card.repetitions, difficulty),
         nextReviewDate |-> nextReviewDateAt(t, card.interval, difficulty)]

calculateNext(card, difficulty, t) ==
    LET ef == nextEaseFactor(card.easeFactor, difficulty)
        iv == nextInterval(card.interval, card.repetitions, ef, difficulty)
    IN  [easeFactor |-> ef,
         interval |-> iv,
         repetitions |-> nextRepetitions(card.repetitions, difficulty),
         nextReviewDate |-> nextReviewDateAt(t, iv, difficulty)]

(***************************************************************************)
(* SpacedRepetitionAlgorithm.processReview: the card it returns.           *)
(***************************************************************************)

\* card.averageResponseTime ? (avg * card.totalReviews + responseTime) / totalReviews
\*                          : responseTime
nextAverageResponseTime(card, responseTime) ==
    IF Truthy(card.averageResponseTime)
    THEN Frac(card.averageResponseTime.n * card.totalReviews
                  + responseTime * card.averageResponseTime.d,
              card.averageResponseTime.d * (card.totalReviews + 1))
    ELSE Frac(responseTime, 1)

\* As nextCorrectReviews, counting 'again' as well.
nextCorrectReviewsAlways(correctReviews, difficulty) == correctReviews + 1

\* difficulty !== Difficulty.AGAIN ? card.correctReviews + 1 : card.correctReviews
nextCorrectReviews(correctReviews, difficulty) ==
    IF difficulty # "again" THEN correctReviews + 1 ELSE correctReviews

\* As nextStreak, 'again' leaving the streak as it was.
nextStreakKept(streak, difficulty) ==
    IF difficulty # "again" THEN streak + 1 ELSE streak

\* difficulty !== Difficulty.AGAIN ? card.streak + 1 : 0
nextStreak(streak, difficulty) ==
    IF difficulty # "again" THEN streak + 1 ELSE 0

\* { ...entry, ...stats }: the keys stats holds replace those of entry.
spread(entry, stats) ==
    [key \in DOMAIN entry |-> IF key \in DOMAIN stats THEN stats[key] ELSE entry[key]]

\* { ...card, ...result, totalReviews: ..., ... }
updatedCardOf(card, difficulty, responseTime, t) ==
    LET result == calculateNext(card, difficulty, t)
    IN  spread(card,
        [easeFactor |-> result.easeFactor,
         interval |-> result.interval,
         repetitions |-> result.repetitions,
         nextReviewDate |-> result.nextReviewDate,
         totalReviews |-> card.totalReviews + 1,
         correctReviews |-> nextCorrectReviews(card.correctReviews, difficulty),
         streak |-> nextStreak(card.streak, difficulty),
         averageResponseTime |-> nextAverageResponseTime(card, responseTime)])

(***************************************************************************)
(* Storage.  Storage.set swallows a failed localStorage.setItem: the write *)
(* is then dropped and the stored value stays what it was.                 *)
(***************************************************************************)

StorageSet(old, value, writeOk) == IF writeOk THEN value ELSE old

\* cards.findIndex(card => card.id === id), 1-based; 0 when absent.
findIndex(stored, id) ==
    IF \E i \in 1..Len(stored) : stored[i].id = id
    THEN CHOOSE i \in 1..Len(stored) :
            /\ stored[i].id = id
            /\ \A j \in 1..(i - 1) : stored[j].id # id
    ELSE 0

\* As CardStorageUpdate, every update starting the card's repetitions anew.
CardStorageUpdateAnew(stored, id, updates, writeOk) ==
    LET index == findIndex(stored, id)
    IN  IF index = 0 THEN stored
        ELSE StorageSet(stored,
                        [stored EXCEPT
                           ![index] = spread(spread(@, [repetitions |-> 0]), updates)],
                        writeOk)

\* As CardStorageUpdate, a card that is not stored being stored anew.
CardStorageUpdateUpsert(stored, id, updates, writeOk) ==
    LET index == findIndex(stored, id)
    IN  IF index = 0 THEN StorageSet(stored, Append(stored, updates), writeOk)
        ELSE StorageSet(stored, [stored EXCEPT ![index] = spread(@, updates)], writeOk)

\* CardStorage.update(id, updates): { ...cards[index], ...updates }, the keys
\* of updates written over those of the stored record; an unknown id writes
\* nothing.
CardStorageUpdate(stored, id, updates, writeOk) ==
    LET index == findIndex(stored, id)
    IN  IF index = 0 THEN stored
        ELSE StorageSet(stored, [stored EXCEPT ![index] = spread(@, updates)], writeOk)

\* formatDate(date): date.toISOString().split('T')[0], the UTC calendar day.
formatDate(t) == t \div MinutesPerDay

getTodayString(t) == formatDate(t)

defaultProgress ==
    [dailyStats |-> << >>,
     lifetimeStats |-> [totalReviews |-> 0, correctReviews |-> 0,
                        accuracy |-> Frac(0, 1),
                        longestStreak |-> 0, totalCardsCreated |-> 0]]

\* progress.dailyStats.find(s => s.date === today), 1-based; 0 when absent.
findDaily(dailyStats, today) ==
    IF \E i \in 1..Len(dailyStats) : dailyStats[i].date = today
    THEN CHOOSE i \in 1..Len(dailyStats) :
            /\ dailyStats[i].date = today
            /\ \A j \in 1..(i - 1) : dailyStats[j].date # today
    ELSE 0

\* As accuracyOf, a ratio between 0 and 1.
accuracyOfRatio(correctReviews, totalReviews) ==
    IF totalReviews > 0 THEN Frac(correctReviews, totalReviews) ELSE Frac(0, 1)

\* totalReviews > 0 ? (correctReviews / totalReviews) * 100 : 0
accuracyOf(correctReviews, totalReviews) ==
    IF totalReviews > 0 THEN Frac(correctReviews * 100, totalReviews) ELSE Frac(0, 1)

\* As updatedProgressOf, lifetime totalReviews counting correct answers only.
updatedProgressOfCorrectOnly(p, correct, responseTime, t) ==
    LET today == getTodayString(t)
        k == findDaily(p.dailyStats, today)
        daily ==
            IF k # 0
            THEN [p.dailyStats EXCEPT
                    ![k].cardsStudied = @ + 1,
                    ![k].correctAnswers = IF correct THEN @ + 1 ELSE @,
                    ![k].studyTime = @ + responseTime]
            ELSE Append(p.dailyStats,
                        [date |-> today, cardsStudied |-> 1,
                         correctAnswers |-> IF correct THEN 1 ELSE 0,
                         studyTime |-> responseTime, newCards |-> 0])
        right == IF correct THEN p.lifetimeStats.correctReviews + 1
                 ELSE p.lifetimeStats.correctReviews
        total == IF correct THEN p.lifetimeStats.totalReviews + 1
                 ELSE p.lifetimeStats.totalReviews
    IN  [dailyStats |-> daily,
         lifetimeStats |-> [p.lifetimeStats EXCEPT
                              !.totalReviews = total,
                              !.correctReviews = right,
                              !.accuracy = accuracyOf(right, total)]]

\* As updatedProgressOf, the entries of other days dropped.
updatedProgressOfTodayOnly(p, correct, responseTime, t) ==
    LET today == getTodayString(t)
        k == findDaily(p.dailyStats, today)
        daily ==
            IF k # 0
            THEN <<[p.dailyStats[k] EXCEPT
                      !.cardsStudied = @ + 1,
                      !.correctAnswers = IF correct THEN @ + 1 ELSE @,
                      !.studyTime = @ + responseTime]>>
            ELSE <<[date |-> today, cardsStudied |-> 1,
                    correctAnswers |-> IF correct THEN 1 ELSE 0,
                    studyTime |-> responseTime, newCards |-> 0]>>
        total == p.lifetimeStats.totalReviews + 1
        right == IF correct THEN p.lifetimeStats.correctReviews + 1
                 ELSE p.lifetimeStats.correctReviews
    IN  [dailyStats |-> daily,
         lifetimeStats |-> [p.lifetimeStats EXCEPT
                              !.totalReviews = total,
                              !.correctReviews = right,
                              !.accuracy = accuracyOf(right, total)]]

\* As updatedProgressOf, a wrong answer taking a correct review away.
updatedProgressOfPenalised(p, correct, responseTime, t) ==
    LET today == getTodayString(t)
        k == findDaily(p.dailyStats, today)
        daily ==
            IF k # 0
            THEN [p.dailyStats EXCEPT
                    ![k].cardsStudied = @ + 1,
                    ![k].correctAnswers = IF correct THEN @ + 1 ELSE @,
                    ![k].studyTime = @ + responseTime]
            ELSE Append(p.dailyStats,
                        [date |-> today, cardsStudied |-> 1,
                         correctAnswers |-> IF correct THEN 1 ELSE 0,
                         studyTime |-> responseTime, newCards |-> 0])
        total == p.lifetimeStats.totalReviews + 1
        right == IF correct THEN p.lifetimeStats.correctReviews + 1
                 ELSE Max(0, p.lifetimeStats.correctReviews - 1)
    IN  [dailyStats |-> daily,
         lifetimeStats |-> [p.lifetimeStats EXCEPT
                              !.totalReviews = total,
                              !.correctReviews = right,
                              !.accuracy = accuracyOf(right, total)]]

\* As updatedProgressOf, pushing a new entry whether or not the day has one.
updatedProgressOfPushed(p, correct, responseTime, t) ==
    LET today == getTodayString(t)
        daily == Append(p.dailyStats,
                        [date |-> today, cardsStudied |-> 1,
                         correctAnswers |-> IF correct THEN 1 ELSE 0,
                         studyTime |-> responseTime, newCards |-> 0])
        total == p.lifetimeStats.totalReviews + 1
        right == IF correct THEN p.lifetimeStats.correctReviews + 1
                 ELSE p.lifetimeStats.correctReviews
    IN  [dailyStats |-> daily,
         lifetimeStats |-> [p.lifetimeStats EXCEPT
                              !.totalReviews = total,
                              !.correctReviews = right,
                              !.accuracy = accuracyOf(right, total)]]

\* SpacedRepetitionAlgorithm.updateDailyStats: the progress it saves.
updatedProgressOf(p, correct, responseTime, t) ==
    LET today == getTodayString(t)
        k == findDaily(p.dailyStats, today)
        daily ==
            IF k # 0
            THEN [p.dailyStats EXCEPT
                    ![k].cardsStudied = @ + 1,
                    ![k].correctAnswers = IF correct THEN @ + 1 ELSE @,
                    ![k].studyTime = @ + responseTime]
            ELSE Append(p.dailyStats,
                        [date |-> today, cardsStudied |-> 1,
                         correctAnswers |-> IF correct THEN 1 ELSE 0,
                         studyTime |-> responseTime, newCards |-> 0])
        total == p.lifetimeStats.totalReviews + 1
        right == IF correct THEN p.lifetimeStats.correctReviews + 1
                 ELSE p.lifetimeStats.correctReviews
    IN  [dailyStats |-> daily,
         lifetimeStats |-> [p.lifetimeStats EXCEPT
                              !.totalReviews = total,
                              !.correctReviews = right,
                              !.accuracy = accuracyOf(right, total)]]

(***************************************************************************)
(* Queue construction: getDueCards, getNewCards, getStudyQueue.            *)
(***************************************************************************)

\* As CardStorageGetDueCards, without the filter.
CardStorageGetDueCardsUnfiltered(stored, t) == stored

\* CardStorage.getDueCards(): cards.filter(card => card.nextReviewDate <= now)
CardStorageGetDueCards(stored, t) ==
    SelectSeq(stored, LAMBDA card : card.nextReviewDate <= t)

\* CardStorage.getNewCards(): cards.filter(card => card.repetitions === 0)
CardStorageGetNewCards(stored) ==
    SelectSeq(stored, LAMBDA card : card.repetitions = 0)

\* shuffleArray: Fisher-Yates driven by Math.random; every order can come out.
shuffleArray(array) ==
    {[i \in 1..Len(array) |-> array[p[i]]] : p \in Permutations(1..Len(array))}

\* maxCards ? shuffled.slice(0, maxCards) : shuffled
sliceTo(shuffled, maxCards) ==
    IF maxCards # 0 THEN SubSeq(shuffled, 1, Min(maxCards, Len(shuffled)))
    ELSE shuffled

\* getDueCards(maxCards): the lists it can return.
getDueCards(stored, t, maxCards) ==
    {sliceTo(shuffled, maxCards) : shuffled \in shuffleArray(CardStorageGetDueCards(stored, t))}

\* getNewCards(maxCards): the lists it can return.
getNewCards(stored, maxCards) ==
    {sliceTo(shuffled, maxCards) : shuffled \in shuffleArray(CardStorageGetNewCards(stored))}

\* As pushAt, pushing one due card per pass.
pushAtOneDue(queue, dueCards, newCards, i) ==
    LET q1 == IF i < Len(dueCards) THEN Append(queue, dueCards[i + 1]) ELSE queue
    IN  IF i < Len(newCards) THEN Append(q1, newCards[i + 1]) ELSE q1

\* One pass of the for loop of getStudyQueue at index i (0-based).
pushAt(queue, dueCards, newCards, i) ==
    LET q1 == IF i < Len(dueCards) THEN Append(queue, dueCards[i + 1]) ELSE queue
        q2 == IF i < Len(dueCards) /\ i + 1 < Len(dueCards)
              THEN Append(q1, dueCards[i + 2]) ELSE q1
    IN  IF i < Len(newCards) THEN Append(q2, newCards[i + 1]) ELSE q2

RECURSIVE interleaveFrom(_, _, _, _)
\* for (let i = 0; i < maxLength; i++) { ... } continued from index i.
interleaveFrom(queue, dueCards, newCards, i) ==
    IF i < Max(Len(dueCards), Len(newCards))
    THEN interleaveFrom(pushAt(queue, dueCards, newCards, i), dueCards, newCards, i + 1)
    ELSE queue

\* The queue getStudyQueue returns for the two capped lists.
interleave(dueCards, newCards) == interleaveFrom(<< >>, dueCards, newCards, 0)

(***************************************************************************)
(* The other collections as they read when nothing is stored.              *)
(***************************************************************************)

\* SettingsStorage.get(): defaultSettings
defaultSettings ==
    [dailyGoal |-> 20, maxNewCards |-> DefaultMaxNewCards,
     maxReviews |-> DefaultMaxReviews,
     showTimer |-> TRUE, autoAdvance |-> FALSE, shuffleCards |-> TRUE]

\* localStorage holds, for every collection, the text the application wrote.
Intact == [key \in {"cards", "progress", "sessions", "categories", "settings"} |-> "none"]

\* The study page as its useState calls set it up: no queue loaded, no session
\* started, sessionId '' (0 here: the ids generated are 1, 2, ...).
ClosedPage ==
    [studyQueue |-> << >>, currentCardIndex |-> 0, sessionStarted |-> FALSE,
     sessionId |-> 0,
     sessionStats |-> [studied |-> 0, correct |-> 0, startTime |-> 0],
     responseStartTime |-> 0]

\* Nothing got at the stored text; no loader called; the study page not open.
NoOther ==
    /\ damage = Intact
    /\ loadCall = None
    /\ page = ClosedPage
    /\ generated = 0

\* No session, no category, the default settings; no export, import or streak
\* computation made.
NoBackup ==
    /\ sessions = << >>
    /\ categories = << >>
    /\ settings = defaultSettings
    /\ exportCall = None
    /\ importCall = None
    /\ streakCall = None
    /\ NoOther

(***************************************************************************)
(* Inputs.                                                                 *)
(***************************************************************************)
ResponseTimes == {0, 3}          \* seconds between showing a card and its rating
QueueCaps == {0, 2, 10}          \* values passed as maxNewCards / maxReviews

\* CardStorage.add: the scheduling fields and statistics of a new card.
newCard(id, t) ==
    [id |-> id, easeFactor |-> InitialEase, interval |-> InitialInterval,
     repetitions |-> 0, nextReviewDate |-> t,
     totalReviews |-> 0, correctReviews |-> 0, streak |-> 0,
     averageResponseTime |-> Undefined]

\* The cards a caller can hand to processReview: a stored card, the card the
\* last call returned, or a card of the last study queue.
ReviewArgs ==
    {cards[i] : i \in 1..Len(cards)}
        \cup (IF lastReview = None THEN {} ELSE {lastReview.result})
        \cup (IF queueCall = None THEN {}
              ELSE {queueCall.queue[i] : i \in 1..Len(queueCall.queue)})

(***************************************************************************)
(* Actions.                                                                *)
(***************************************************************************)

\* SpacedRepetitionAlgorithm.processReview(card, difficulty, responseTime).
\* lastReview keeps the call: its arguments, the card it returned, whether it
\* threw (Storage.set catches what setItem throws, so it never does), which
\* of its two writes were dropped, and the progress stored before it.
processReview(card, difficulty, responseTime, cardWriteOk, progressWriteOk) ==
    /\ LET updatedCard == updatedCardOf(card, difficulty, responseTime, now)
       IN  /\ cards' = CardStorageUpdate(cards, card.id, updatedCard, cardWriteOk)
           /\ progress' = StorageSet(progress,
                              updatedProgressOf(progress, difficulty # "again",
                                                responseTime, now),
                              progressWriteOk)
           /\ lastReview' = [kind |-> "review", card |-> card,
                             difficulty |-> difficulty,
                             responseTime |-> responseTime,
                             at |-> now, result |-> updatedCard,
                             threw |-> FALSE,
                             cardWriteFailed |->
                                 findIndex(cards, card.id) # 0 /\ ~cardWriteOk,
                             progressWriteFailed |-> ~progressWriteOk,
                             progressBefore |-> progress]
    /\ reviewCalls' = reviewCalls + 1

\* A call of processReview from outside the study page.
ProcessReview(card, difficulty, responseTime, cardWriteOk, progressWriteOk) ==
    /\ processReview(card, difficulty, responseTime, cardWriteOk, progressWriteOk)
    /\ UNCHANGED <<now, queueCall, backupVars>>

\* SpacedRepetitionAlgorithm.getStudyQueue(maxNewCards, maxReviews)
GetStudyQueue(maxNewCards, maxReviews) ==
    /\ \E dueCards \in getDueCards(cards, now, maxReviews) :
       \E newCards \in getNewCards(cards, maxNewCards) :
          queueCall' = [kind |-> "queue",
                        maxNewCards |-> maxNewCards, maxReviews |-> maxReviews,
                        dueCards |-> dueCards, newCards |-> newCards,
                        queue |-> interleave(dueCards, newCards)]
    /\ UNCHANGED <<now, cards, progress, lastReview, reviewCalls, backupVars>>

\* CardStorage.add(card); the id is the next that generateId returns.
AddCard(writeOk) ==
    /\ cards' = StorageSet(cards, Append(cards, newCard(generated + 1, now)), writeOk)
    /\ generated' = generated + 1
    /\ UNCHANGED <<now, progress, lastReview, reviewCalls, queueCall, sessions,
                   categories, settings, exportCall, importCall, streakCall,
                   damage, loadCall, page>>

\* The clock moves on by a minute.
TickMinute ==
    /\ now % MinutesPerDay < MaxMinutes
    /\ now' = now + 1
    /\ UNCHANGED <<cards, progress, lastReview, reviewCalls, queueCall, backupVars>>

\* The clock moves on by a day.
TickDay ==
    /\ now \div MinutesPerDay < MaxDays
    /\ now' = now + MinutesPerDay
    /\ UNCHANGED <<cards, progress, lastReview, reviewCalls, queueCall, backupVars>>

(***************************************************************************)
(* The application: an empty store; cards are added, queued with the       *)
(* default limits and reviewed.                                            *)
(***************************************************************************)
Init ==
    /\ now = 0
    /\ cards = << >>
    /\ progress = defaultProgress
    /\ lastReview = None
    /\ reviewCalls = 0
    /\ queueCall = None
    /\ NoBackup

Add ==
    /\ generated < MaxCards
    /\ \E writeOk \in BOOLEAN : AddCard(writeOk)

Queue == GetStudyQueue(DefaultMaxNewCards, DefaultMaxReviews)

Review ==
    /\ reviewCalls < MaxReviews
    /\ \E card \in ReviewArgs, difficulty \in Difficulty,
          responseTime \in ResponseTimes,
          cardWriteOk \in BOOLEAN, progressWriteOk \in BOOLEAN :
            ProcessReview(card, difficulty, responseTime, cardWriteOk, progressWriteOk)

Next == Add \/ TickMinute \/ TickDay \/ Queue \/ Review

Spec == Init /\ [][Next]_vars

(***************************************************************************)
(* Reviews of one persisted card.  The card is any combination of the      *)
(* scheduling values below, with the statistics of a card answered         *)
(* correctly `repetitions` times.                                          *)
(***************************************************************************)
SeedEase == {130, 140, 145, 200, 240, 245, 250}
SeedInterval == {0, 1, 2, 7}
SeedRepetitions == {0, 1, 2, 3}

SeedCards ==
    {[id |-> 1, easeFactor |-> ef, interval |-> iv, repetitions |-> rp,
      nextReviewDate |-> 0,
      totalReviews |-> rp, correctReviews |-> rp, streak |-> rp,
      averageResponseTime |-> IF rp = 0 THEN Undefined ELSE Frac(3, 1)] :
        ef \in SeedEase, iv \in SeedInterval, rp \in SeedRepetitions}

InitReview ==
    /\ now = 0
    /\ \E card \in SeedCards : cards = <<card>>
    /\ progress = defaultProgress
    /\ lastReview = None
    /\ reviewCalls = 0
    /\ queueCall = None
    /\ NoBackup

SeedReview ==
    /\ reviewCalls < MaxSeedReviews
    /\ \E card \in ReviewArgs, difficulty \in Difficulty,
          responseTime \in ResponseTimes,
          cardWriteOk \in BOOLEAN, progressWriteOk \in BOOLEAN :
            ProcessReview(card, difficulty, responseTime, cardWriteOk, progressWriteOk)

NextReview == TickDay \/ SeedReview

SpecReview == InitReview /\ [][NextReview]_vars

(***************************************************************************)
(* Sequences of reviews of one persisted card that has one of the          *)
(* easeFactors above and was never reviewed.                               *)
(***************************************************************************)
SequenceCards ==
    {card \in SeedCards : card.interval = InitialInterval /\ card.repetitions = 0}

InitSequence ==
    /\ now = 0
    /\ \E card \in SequenceCards : cards = <<card>>
    /\ progress = defaultProgress
    /\ lastReview = None
    /\ reviewCalls = 0
    /\ queueCall = None
    /\ NoBackup

SequenceReview ==
    /\ reviewCalls < MaxSeqReviews
    /\ \E card \in ReviewArgs, difficulty \in Difficulty,
          responseTime \in ResponseTimes,
          cardWriteOk \in BOOLEAN, progressWriteOk \in BOOLEAN :
            ProcessReview(card, difficulty, responseTime, cardWriteOk, progressWriteOk)

NextSequence == SequenceReview

SpecSequence == InitSequence /\ [][NextSequence]_vars

(***************************************************************************)
(* Reviews from an empty history: one card just created and no review     *)
(* recorded yet; the card is reviewed as it is stored, three seconds after *)
(* it is shown.                                                            *)
(***************************************************************************)
InitLifetime ==
    /\ now = 0
    /\ cards = <<newCard(1, 0)>>
    /\ progress = defaultProgress
    /\ lastReview = None
    /\ reviewCalls = 0
    /\ queueCall = None
    /\ NoBackup

LifetimeReview ==
    /\ reviewCalls < MaxLifetimeReviews
    /\ \E difficulty \in Difficulty, cardWriteOk \in BOOLEAN, progressWriteOk \in BOOLEAN :
          ProcessReview(cards[1], difficulty, 3, cardWriteOk, progressWriteOk)

NextLifetime == LifetimeReview

SpecLifetime == InitLifetime /\ [][NextLifetime]_vars

(***************************************************************************)
(* Queue construction over a persisted collection.  The collection holds,  *)
(* a day after its cards were created, cards that are due only (answered   *)
(* 'good' a day ago), new only (answered 'again' just now), both (never    *)
(* reviewed) and neither (answered 'good' just now).                       *)
(***************************************************************************)
dueOnlyCard(id) == updatedCardOf(newCard(id, 0), "good", 3, 0)
newOnlyCard(id) == updatedCardOf(newCard(id, 0), "again", 3, MinutesPerDay)
dueAndNewCard(id) == newCard(id, 0)
neitherCard(id) == updatedCardOf(newCard(id, 0), "good", 3, MinutesPerDay)

QueueStore(d, n, b, z) ==
    [id \in 1..(d + n + b + z) |->
        IF id <= d THEN dueOnlyCard(id)
        ELSE IF id <= d + n THEN newOnlyCard(id)
        ELSE IF id <= d + n + b THEN dueAndNewCard(id)
        ELSE neitherCard(id)]

InitQueue ==
    /\ now = MinutesPerDay
    /\ \E d \in 0..QMaxCards, n \in 0..QMaxNew, b \in 0..QMaxBoth, z \in 0..2 :
          /\ d + n + b + z <= QMaxCards
          /\ cards = QueueStore(d, n, b, z)
    /\ progress = defaultProgress
    /\ lastReview = None
    /\ reviewCalls = 0
    /\ queueCall = None
    /\ NoBackup

\* One call per behaviour: getStudyQueue reads the store and the clock only, so
\* a second call has the outcomes of the first.
QueueAny ==
    /\ queueCall = None
    /\ \E maxNewCards \in QueueCaps, maxReviews \in QueueCaps :
          GetStudyQueue(maxNewCards, maxReviews)

NextQueue == QueueAny

SpecQueue == InitQueue /\ [][NextQueue]_vars

(***************************************************************************)
(* Backup: BackupStorage.exportData, importData and clearAllData.          *)
(*                                                                         *)
(* A document is the text handed to importData: text that JSON.parse       *)
(* rejects, the text `null`, or an object in which each of the five        *)
(* collection keys is missing, null, or holds a collection in its JSON     *)
(* form.  In its JSON form a Date is the ISO string of its instant and a   *)
(* key whose value is undefined is left out; numbers, booleans and the     *)
(* other strings (a DailyStats date has no time part) are what they were.  *)
(***************************************************************************)
CollectionKeys == {"cards", "progress", "sessions", "categories", "settings"}

Missing == [kind |-> "missing"]
JsonNull == [kind |-> "null"]
Value(v) == [kind |-> "value", value |-> v]

\* An endTime that was never set.
NoDate == -1

\* As toISOString, keeping the calendar day only.
toISOStringDateOnly(t) == [iso |-> (t \div MinutesPerDay) * MinutesPerDay]

\* Date.prototype.toISOString, which JSON.stringify calls on a Date: the
\* instant in UTC.
toISOString(t) == [iso |-> t]

\* Storage.reviveDates on a string: one that starts like an ISO date and time
\* and that new Date() accepts becomes the Date of that instant.
reviveDates(string) == string.iso

CardKeys ==
    {"id", "easeFactor", "interval", "repetitions", "nextReviewDate",
     "totalReviews", "correctReviews", "streak", "averageResponseTime"}

\* JSON.stringify of a card, parsed again.
stringifyCard(card) ==
    [key \in {k \in CardKeys :
                k = "averageResponseTime" => card.averageResponseTime # Undefined} |->
        IF key = "nextReviewDate" THEN toISOString(card.nextReviewDate)
        ELSE card[key]]

\* Storage.get of a stored card: JSON.parse, then reviveDates.
reviveCard(json) ==
    [id |-> json.id, easeFactor |-> json.easeFactor, interval |-> json.interval,
     repetitions |-> json.repetitions,
     nextReviewDate |-> reviveDates(json.nextReviewDate),
     totalReviews |-> json.totalReviews, correctReviews |-> json.correctReviews,
     streak |-> json.streak,
     averageResponseTime |-> IF "averageResponseTime" \in DOMAIN json
                             THEN json.averageResponseTime ELSE Undefined]

stringifyCards(stored) == [i \in 1..Len(stored) |-> stringifyCard(stored[i])]
reviveCards(json) == [i \in 1..Len(json) |-> reviveCard(json[i])]

SessionKeys == {"id", "startTime", "endTime", "cardsStudied", "correctAnswers"}

\* JSON.stringify of a session, parsed again.
stringifySession(session) ==
    [key \in {k \in SessionKeys : k = "endTime" => session.endTime # NoDate} |->
        IF key \in {"startTime", "endTime"} THEN toISOString(session[key])
        ELSE session[key]]

\* Storage.get of a stored session: JSON.parse, then reviveDates.
reviveSession(json) ==
    [id |-> json.id, startTime |-> reviveDates(json.startTime),
     endTime |-> IF "endTime" \in DOMAIN json THEN reviveDates(json.endTime)
                 ELSE NoDate,
     cardsStudied |-> json.cardsStudied, correctAnswers |-> json.correctAnswers]

stringifySessions(stored) == [i \in 1..Len(stored) |-> stringifySession(stored[i])]
reviveSessions(json) == [i \in 1..Len(json) |-> reviveSession(json[i])]

\* The five collections as the store holds them.
Store ==
    [cards |-> cards, progress |-> progress, sessions |-> sessions,
     categories |-> categories, settings |-> settings]

\* Each collection as it reads when its key is not stored.
EmptyStore ==
    [cards |-> << >>, progress |-> defaultProgress, sessions |-> << >>,
     categories |-> << >>, settings |-> defaultSettings]

\* JSON.stringify(value): the JSON form of each collection.
stringify(store) ==
    [cards |-> stringifyCards(store.cards), progress |-> store.progress,
     sessions |-> stringifySessions(store.sessions),
     categories |-> store.categories, settings |-> store.settings]

\* Storage.set(key, value) followed by Storage.get(key), for a value in its
\* JSON form.
revive(key, json) ==
    CASE key = "cards" -> reviveCards(json)
      [] key = "sessions" -> reviveSessions(json)
      [] OTHER -> json

\* exportData(): the document it returns.
exportData(store, t) ==
    LET json == stringify(store)
    IN  [kind |-> "object",
         cards |-> Value(json.cards), progress |-> Value(json.progress),
         sessions |-> Value(json.sessions), categories |-> Value(json.categories),
         settings |-> Value(json.settings), exportDate |-> toISOString(t)]

\* As JSONparse, taking text that is no JSON for an empty object.
JSONparseLenient(jsonData) ==
    [threw |-> FALSE,
     data |-> IF jsonData.kind = "malformed"
              THEN [kind |-> "object", cards |-> Missing, progress |-> Missing,
                    sessions |-> Missing, categories |-> Missing,
                    settings |-> Missing]
              ELSE jsonData]

\* JSON.parse(jsonData): throws a SyntaxError on text that is no JSON.
JSONparse(jsonData) == [threw |-> jsonData.kind = "malformed", data |-> jsonData]

\* if (data.key): null is falsy, an object or an array (an empty one too) is
\* truthy; reading a key of null throws a TypeError before anything is saved.
imported(data, key) == data[key].kind = "value"

\* importData(jsonData): what it returns and the store it leaves.
importData(jsonData, store, writeOk) ==
    LET parsed == JSONparse(jsonData)
        threw == parsed.threw \/ parsed.data.kind = "null"
    IN  [result |-> ~threw,
         store |-> [key \in CollectionKeys |->
                      IF ~threw /\ imported(parsed.data, key)
                      THEN StorageSet(store[key],
                                      revive(key, parsed.data[key].value),
                                      writeOk[key])
                      ELSE store[key]],
         writeFailed |-> {key \in CollectionKeys :
                            ~threw /\ imported(parsed.data, key) /\ ~writeOk[key]}]

\* BackupStorage.exportData()
ExportData ==
    /\ exportCall' = [kind |-> "export", store |-> Store,
                      document |-> exportData(Store, now)]
    /\ UNCHANGED <<now, cards, progress, lastReview, reviewCalls, queueCall,
                   sessions, categories, settings, importCall, streakCall, otherVars>>

\* BackupStorage.importData(jsonData)
ImportData(jsonData, writeOk) ==
    /\ LET outcome == importData(jsonData, Store, writeOk)
       IN  /\ cards' = outcome.store.cards
           /\ progress' = outcome.store.progress
           /\ sessions' = outcome.store.sessions
           /\ categories' = outcome.store.categories
           /\ settings' = outcome.store.settings
           /\ importCall' = [kind |-> "import", jsonData |-> jsonData,
                             before |-> Store, result |-> outcome.result,
                             writeFailed |-> outcome.writeFailed]
    /\ UNCHANGED <<now, lastReview, reviewCalls, queueCall, exportCall, streakCall,
                   otherVars>>

\* BackupStorage.clearAllData()
ClearAllData ==
    /\ cards' = EmptyStore.cards
    /\ progress' = EmptyStore.progress
    /\ sessions' = EmptyStore.sessions
    /\ categories' = EmptyStore.categories
    /\ settings' = EmptyStore.settings
    /\ UNCHANGED <<now, lastReview, reviewCalls, queueCall, exportCall, importCall,
                   streakCall, otherVars>>

(***************************************************************************)
(* Backup and restore over a persisted store: nothing stored, or some      *)
(* cards reviewed and not reviewed, the progress of one review, sessions   *)
(* ended and not ended, one category and settings that are not the         *)
(* defaults.  A document is exported, the store may be cleared, and one    *)
(* document is imported: the exported one or one written by hand.          *)
(***************************************************************************)
BackupCards(n) ==
    [id \in 1..n |-> IF id % 2 = 1 THEN newOnlyCard(id) ELSE dueAndNewCard(id)]

BackupSessions(n) ==
    [id \in 1..n |->
        [id |-> id, startTime |-> id,
         endTime |-> IF id < n THEN id + 1 ELSE NoDate,
         cardsStudied |-> 1, correctAnswers |-> 0]]

BackupStore(n) ==
    IF n = 0 THEN EmptyStore
    ELSE [cards |-> BackupCards(n),
          progress |-> updatedProgressOf(defaultProgress, FALSE, 3, MinutesPerDay),
          sessions |-> BackupSessions(n),
          categories |-> <<[id |-> 1, name |-> "general", cardCount |-> n]>>,
          settings |-> [defaultSettings EXCEPT !.shuffleCards = FALSE]]

\* The collections of a document written by hand, in their JSON form.
HandStore ==
    stringify([cards |-> <<neitherCard(9)>>,
               progress |-> updatedProgressOf(defaultProgress, TRUE, 3, 0),
               sessions |-> << >>,
               categories |-> <<[id |-> 9, name |-> "other", cardCount |-> 0]>>,
               settings |-> [defaultSettings EXCEPT !.dailyGoal = 5]])

HandEntry(key, kind) ==
    CASE kind = "missing" -> Missing
      [] kind = "null" -> JsonNull
      [] OTHER -> Value(HandStore[key])

HandDocuments ==
    {[kind |-> "malformed"], [kind |-> "null"]}
        \cup {[kind |-> "object",
               cards |-> HandEntry("cards", e["cards"]),
               progress |-> HandEntry("progress", e["progress"]),
               sessions |-> HandEntry("sessions", e["sessions"]),
               categories |-> HandEntry("categories", e["categories"]),
               settings |-> HandEntry("settings", e["settings"])] :
                e \in [CollectionKeys -> {"missing", "null", "value"}]}

InitBackup ==
    /\ now = MinutesPerDay + 1
    /\ \E n \in 0..BMaxCards :
          LET store == BackupStore(n)
          IN  /\ cards = store.cards
              /\ progress = store.progress
              /\ sessions = store.sessions
              /\ categories = store.categories
              /\ settings = store.settings
    /\ lastReview = None
    /\ reviewCalls = 0
    /\ queueCall = None
    /\ exportCall = None
    /\ importCall = None
    /\ streakCall = None
    /\ NoOther

BackupExport ==
    /\ exportCall = None
    /\ importCall = None
    /\ ExportData

BackupClear ==
    /\ importCall = None
    /\ Store # EmptyStore
    /\ ClearAllData

\* One import per behaviour: importData reads its argument and the store only.
BackupImport ==
    /\ importCall = None
    /\ \E jsonData \in HandDocuments
                        \cup (IF exportCall = None THEN {} ELSE {exportCall.document}),
          writeOk \in [CollectionKeys -> BOOLEAN] :
            ImportData(jsonData, writeOk)

NextBackup == BackupExport \/ BackupClear \/ BackupImport

SpecBackup == InitBackup /\ [][NextBackup]_vars

(***************************************************************************)
(* The study streak: StudyUtils.calculateStudyStreak over the DailyStats   *)
(* that ProgressStorage.updateDailyStats has stored.                       *)
(***************************************************************************)

\* ProgressStorage.updateDailyStats(date, stats): the progress it saves.
ProgressStorageUpdateDailyStats(p, date, stats) ==
    LET existingIndex == findDaily(p.dailyStats, date)
    IN  IF existingIndex # 0
        THEN [p EXCEPT !.dailyStats[existingIndex] = spread(@, stats)]
        ELSE [p EXCEPT !.dailyStats =
                Append(@, spread([date |-> date, cardsStudied |-> 0,
                                  correctAnswers |-> 0, studyTime |-> 0,
                                  newCards |-> 0], stats))]

RECURSIVE sortByDateDescending(_)
\* dailyStats.sort((a, b) => b.date.localeCompare(a.date)): latest date first,
\* entries of one date in the order they had.
sortByDateDescending(dailyStats) ==
    IF dailyStats = << >> THEN << >>
    ELSE LET first == CHOOSE i \in 1..Len(dailyStats) :
                        /\ \A j \in 1..Len(dailyStats) :
                              dailyStats[j].date <= dailyStats[i].date
                        /\ \A j \in 1..(i - 1) :
                              dailyStats[j].date # dailyStats[i].date
             rest == [j \in 1..(Len(dailyStats) - 1) |->
                        IF j < first THEN dailyStats[j] ELSE dailyStats[j + 1]]
         IN  <<dailyStats[first]>> \o sortByDateDescending(rest)

\* for (const stats of dailyStats) { ... } continued from entry i, 1-based.
RECURSIVE streakFrom(_, _, _, _)
streakFrom(sorted, i, currentDate, streak) ==
    IF i > Len(sorted) THEN streak
    ELSE IF sorted[i].date = formatDate(currentDate) /\ sorted[i].cardsStudied > 0
         THEN streakFrom(sorted, i + 1, currentDate - MinutesPerDay, streak + 1)
         ELSE streak

\* StudyUtils.calculateStudyStreak() called at time t.
calculateStudyStreak(p, t) == streakFrom(sortByDateDescending(p.dailyStats), 1, t, 0)

\* ProgressStorage.updateDailyStats(date, stats)
UpdateDailyStats(date, stats, writeOk) ==
    /\ progress' = StorageSet(progress,
                              ProgressStorageUpdateDailyStats(progress, date, stats),
                              writeOk)
    /\ UNCHANGED <<now, cards, lastReview, reviewCalls, queueCall, backupVars>>

\* StudyUtils.calculateStudyStreak()
CalculateStudyStreak ==
    /\ streakCall' = [kind |-> "streak", at |-> now,
                      result |-> calculateStudyStreak(progress, now)]
    /\ UNCHANGED <<now, cards, progress, lastReview, reviewCalls, queueCall,
                   sessions, categories, settings, exportCall, importCall, otherVars>>

\* Nothing stored, StreakToday days after the start of the calendar; days are
\* recorded through ProgressStorage.updateDailyStats, with one card studied or
\* with none, and the streak is computed once.
StreakDates == (StreakToday - SMaxBack)..(StreakToday + 1)
StreakStats == {[key \in {} |-> 0], [cardsStudied |-> 1]}

InitStreak ==
    /\ now = StreakToday * MinutesPerDay + 1
    /\ cards = << >>
    /\ progress = defaultProgress
    /\ lastReview = None
    /\ reviewCalls = 0
    /\ queueCall = None
    /\ NoBackup

StreakUpdate ==
    /\ streakCall = None
    /\ Len(progress.dailyStats) < SMaxStats
    /\ \E date \in StreakDates, stats \in StreakStats, writeOk \in BOOLEAN :
          /\ findDaily(progress.dailyStats, date) = 0
          /\ UpdateDailyStats(date, stats, writeOk)

StreakCompute ==
    /\ streakCall = None
    /\ CalculateStudyStreak

NextStreak == StreakUpdate \/ StreakCompute

SpecStreak == InitStreak /\ [][NextStreak]_vars

(***************************************************************************)
(* The loaders: Storage.get and CardStorage.getAll, ProgressStorage.get,   *)
(* SessionStorage.getAll, CategoryStorage.getAll, SettingsStorage.get,     *)
(* over a store whose text something else than the application changed:    *)
(* the key removed, its text emptied, cut short so that it is no JSON, or  *)
(* replaced by the text `null`.                                            *)
(***************************************************************************)
DamageKinds == {"none", "removed", "emptied", "truncated", "null"}

\* localStorage.getItem(key): the item found under the key of a collection.
getItem(store, key, damaged) ==
    CASE damaged = "none" -> [kind |-> "text", parses |-> TRUE,
                              json |-> Value(stringify(store)[key])]
      [] damaged = "removed" -> [kind |-> "absent"]
      [] damaged = "emptied" -> [kind |-> "empty"]
      [] damaged = "truncated" -> [kind |-> "text", parses |-> FALSE]
      [] OTHER -> [kind |-> "text", parses |-> TRUE, json |-> JsonNull]

\* As StorageGet, without the try / catch around JSON.parse.
StorageGetNoCatch(key, item) ==
    IF item.kind \in {"absent", "empty"} THEN [threw |-> FALSE, value |-> JsonNull]
    ELSE IF ~item.parses THEN [threw |-> TRUE, value |-> JsonNull]
    ELSE IF item.json.kind = "null" THEN [threw |-> FALSE, value |-> JsonNull]
    ELSE [threw |-> FALSE, value |-> Value(revive(key, item.json.value))]

\* Storage.get(key): null for no item and for an empty one, null (after
\* console.error) when JSON.parse throws, else the parsed value with its
\* dates revived.
StorageGet(key, item) ==
    IF item.kind \in {"absent", "empty"} THEN [threw |-> FALSE, value |-> JsonNull]
    ELSE IF ~item.parses THEN [threw |-> FALSE, value |-> JsonNull]
    ELSE IF item.json.kind = "null" THEN [threw |-> FALSE, value |-> JsonNull]
    ELSE [threw |-> FALSE, value |-> Value(revive(key, item.json.value))]

\* Storage.get(key) || default, for each of the five loaders.
loader(key, item) ==
    LET got == StorageGet(key, item)
    IN  [threw |-> got.threw,
         value |-> IF ~got.threw /\ got.value.kind = "value" THEN got.value.value
                   ELSE EmptyStore[key]]

\* The five loaders called one after the other.
Load ==
    /\ loadCall' = [kind |-> "load",
                    returned |-> [key \in CollectionKeys |->
                                    loader(key, getItem(Store, key, damage[key]))]]
    /\ UNCHANGED <<now, cards, progress, lastReview, reviewCalls, queueCall,
                   sessions, categories, settings, exportCall, importCall,
                   streakCall, damage, page, generated>>

\* A persisted store, as in the backup specification, whose text is damaged in
\* any way for any of its collections; the collections are loaded once.
InitLoad ==
    /\ now = MinutesPerDay + 1
    /\ \E n \in 0..BMaxCards :
          LET store == BackupStore(n)
          IN  /\ cards = store.cards
              /\ progress = store.progress
              /\ sessions = store.sessions
              /\ categories = store.categories
              /\ settings = store.settings
    /\ lastReview = None
    /\ reviewCalls = 0
    /\ queueCall = None
    /\ exportCall = None
    /\ importCall = None
    /\ streakCall = None
    /\ damage \in [CollectionKeys -> DamageKinds]
    /\ loadCall = None
    /\ page = ClosedPage
    /\ generated = 0

LoadOnce ==
    /\ loadCall = None
    /\ Load

NextLoad == LoadOnce

SpecLoad == InitLoad /\ [][NextLoad]_vars

(***************************************************************************)
(* Reviews over the days: one card just created and no review recorded     *)
(* yet; the first review is made at any of three times of the day, the     *)
(* clock moves on by half days, and the card is reviewed as it is stored,  *)
(* three seconds after it is shown.                                        *)
(***************************************************************************)
DMaxReviews == 3     \* processReview calls in the daily specification
DMaxHalfDays == 3    \* half days the clock may advance in it

HalfDay == MinutesPerDay \div 2   \* twelve hours, in minutes
TimesOfDay == {0, 30, 1410}       \* 00:00, 00:30 and 23:30 UTC

\* Date.getTimezoneOffset() negated: minutes by which local time is ahead of
\* UTC, for UTC-5, UTC and UTC+1.
TimezoneOffsets == {-300, 0, 60}

InitDaily ==
    /\ now \in TimesOfDay
    /\ cards = <<newCard(1, 0)>>
    /\ progress = defaultProgress
    /\ lastReview = None
    /\ reviewCalls = 0
    /\ queueCall = None
    /\ NoBackup

DailyTick ==
    /\ now < DMaxHalfDays * HalfDay
    /\ now' = now + HalfDay
    /\ UNCHANGED <<cards, progress, lastReview, reviewCalls, queueCall, backupVars>>

DailyReview ==
    /\ reviewCalls < DMaxReviews
    /\ \E difficulty \in Difficulty, progressWriteOk \in BOOLEAN :
          ProcessReview(cards[1], difficulty, 3, TRUE, progressWriteOk)

NextDaily == DailyTick \/ DailyReview

SpecDaily == InitDaily /\ [][NextDaily]_vars

(***************************************************************************)
(* The study page (StudyPage): it loads the study queue once, and the user *)
(* starts a session, rates the cards of the queue one after the other and  *)
(* ends the session, by the End Session button or by rating the last card. *)
(***************************************************************************)

\* SessionStorage.add(session): the sessions it saves; id is what generateId
\* returned.
SessionStorageAdd(stored, session, id, writeOk) ==
    StorageSet(stored, Append(stored, spread(session, [id |-> id])), writeOk)

\* As SessionStorageUpdate, the updates applied to every stored session.
SessionStorageUpdateAll(stored, id, updates, writeOk) ==
    StorageSet(stored, [i \in 1..Len(stored) |-> spread(stored[i], updates)], writeOk)

\* SessionStorage.update(id, updates): the sessions it saves; an unknown id
\* writes nothing.
SessionStorageUpdate(stored, id, updates, writeOk) ==
    LET index == findIndex(stored, id)
    IN  IF index = 0 THEN stored
        ELSE StorageSet(stored, [stored EXCEPT ![index] = spread(@, updates)], writeOk)

\* The second useEffect of the page: getStudyQueue with the limits of the
\* settings, shuffled when settings.shuffleCards.
LoadStudyQueue ==
    /\ \E dueCards \in getDueCards(cards, now, settings.maxReviews) :
       \E newCards \in getNewCards(cards, settings.maxNewCards) :
          LET queue == interleave(dueCards, newCards)
          IN  /\ queueCall' = [kind |-> "queue",
                               maxNewCards |-> settings.maxNewCards,
                               maxReviews |-> settings.maxReviews,
                               dueCards |-> dueCards, newCards |-> newCards,
                               queue |-> queue]
              /\ \E shuffled \in (IF settings.shuffleCards THEN shuffleArray(queue)
                                  ELSE {queue}) :
                    page' = [page EXCEPT !.studyQueue = shuffled]
    /\ UNCHANGED <<now, cards, progress, lastReview, reviewCalls, sessions,
                   categories, settings, exportCall, importCall, streakCall,
                   damage, loadCall, generated>>

\* startSession, the handler of the Start button, which the page shows while
\* no session is started and the queue is not empty.
StartSession(writeOk) ==
    /\ ~page.sessionStarted
    /\ Len(page.studyQueue) > 0
    /\ LET id == generated + 1
       IN  /\ sessions' = SessionStorageAdd(sessions,
                              [id |-> 0, startTime |-> now, endTime |-> NoDate,
                               cardsStudied |-> 0, correctAnswers |-> 0],
                              id, writeOk)
           /\ page' = [page EXCEPT !.sessionId = id,
                                   !.sessionStarted = TRUE,
                                   !.responseStartTime = now,
                                   !.sessionStats = [studied |-> 0, correct |-> 0,
                                                     startTime |-> now]]
           /\ generated' = id
    /\ UNCHANGED <<now, cards, progress, lastReview, reviewCalls, queueCall,
                   categories, settings, exportCall, importCall, streakCall,
                   damage, loadCall>>

\* endSession, the handler of the End Session button, which the page shows
\* while a session is started.
EndSession(writeOk) ==
    /\ page.sessionStarted
    /\ sessions' = IF page.sessionId # 0
                   THEN SessionStorageUpdate(sessions, page.sessionId,
                            [endTime |-> now,
                             cardsStudied |-> page.sessionStats.studied,
                             correctAnswers |-> page.sessionStats.correct],
                            writeOk)
                   ELSE sessions
    /\ page' = [page EXCEPT !.sessionStarted = FALSE, !.currentCardIndex = 0]
    /\ UNCHANGED <<now, cards, progress, lastReview, reviewCalls, queueCall,
                   categories, settings, exportCall, importCall, streakCall,
                   damage, loadCall, generated>>

\* As HandleDifficultyResponse, every rating counted as a correct answer.
HandleDifficultyResponseAllCorrect(difficulty, cardWriteOk, progressWriteOk, writeOk) ==
    /\ page.sessionStarted
    /\ page.currentCardIndex < Len(page.studyQueue)
    /\ LET currentCard == page.studyQueue[page.currentCardIndex + 1]
           responseTime == (now - page.responseStartTime) * 60
           newStats == [page.sessionStats EXCEPT
                          !.studied = @ + 1,
                          !.correct = @ + 1]
       IN  /\ processReview(currentCard, difficulty, responseTime,
                            cardWriteOk, progressWriteOk)
           /\ IF page.currentCardIndex + 1 >= Len(page.studyQueue)
              THEN /\ sessions' = IF page.sessionId # 0
                                  THEN SessionStorageUpdate(sessions, page.sessionId,
                                           [endTime |-> now,
                                            cardsStudied |-> newStats.studied,
                                            correctAnswers |-> newStats.correct],
                                           writeOk)
                                  ELSE sessions
                   /\ page' = [page EXCEPT !.sessionStats = newStats,
                                           !.sessionStarted = FALSE,
                                           !.currentCardIndex = 0]
              ELSE /\ sessions' = sessions
                   /\ page' = [page EXCEPT !.sessionStats = newStats,
                                           !.currentCardIndex = @ + 1,
                                           !.responseStartTime = now]
    /\ UNCHANGED <<now, queueCall, categories, settings, exportCall, importCall,
                   streakCall, damage, loadCall, generated>>

\* handleDifficultyResponse(difficulty), the handler of the four rating
\* buttons and keys.
HandleDifficultyResponse(difficulty, cardWriteOk, progressWriteOk, writeOk) ==
    /\ page.sessionStarted
    /\ page.currentCardIndex < Len(page.studyQueue)
    /\ LET currentCard == page.studyQueue[page.currentCardIndex + 1]
           responseTime == (now - page.responseStartTime) * 60
           newStats == [page.sessionStats EXCEPT
                          !.studied = @ + 1,
                          !.correct = IF difficulty # "again" THEN @ + 1 ELSE @]
       IN  /\ processReview(currentCard, difficulty, responseTime,
                            cardWriteOk, progressWriteOk)
           /\ IF page.currentCardIndex + 1 >= Len(page.studyQueue)
              THEN /\ sessions' = IF page.sessionId # 0
                                  THEN SessionStorageUpdate(sessions, page.sessionId,
                                           [endTime |-> now,
                                            cardsStudied |-> newStats.studied,
                                            correctAnswers |-> newStats.correct],
                                           writeOk)
                                  ELSE sessions
                   /\ page' = [page EXCEPT !.sessionStats = newStats,
                                           !.sessionStarted = FALSE,
                                           !.currentCardIndex = 0]
              ELSE /\ sessions' = sessions
                   /\ page' = [page EXCEPT !.sessionStats = newStats,
                                           !.currentCardIndex = @ + 1,
                                           !.responseStartTime = now]
    /\ UNCHANGED <<now, queueCall, categories, settings, exportCall, importCall,
                   streakCall, damage, loadCall, generated>>

(***************************************************************************)
(* Study sessions over a store of one card that is due and one that is     *)
(* new: the page loads its queue once, sessions are started, run and       *)
(* ended, and the clock moves on by minutes.  The cards are rated 'again'  *)
(* or 'good'.                                                              *)
(***************************************************************************)
TMaxSessions == 2    \* sessions started in the study specification
TMaxMinutes == 1     \* minutes the clock may advance in it
TMaxRatings == 3     \* cards rated in it

InitStudy ==
    /\ now = MinutesPerDay
    /\ cards = <<dueOnlyCard(1), newOnlyCard(2)>>
    /\ progress = defaultProgress
    /\ lastReview = None
    /\ reviewCalls = 0
    /\ queueCall = None
    /\ NoBackup

StudyTick ==
    /\ now < MinutesPerDay + TMaxMinutes
    /\ now' = now + 1
    /\ UNCHANGED <<cards, progress, lastReview, reviewCalls, queueCall, backupVars>>

StudyLoad ==
    /\ queueCall = None
    /\ LoadStudyQueue

StudyStart ==
    /\ generated < TMaxSessions
    /\ \E writeOk \in BOOLEAN : StartSession(writeOk)

StudyEnd == \E writeOk \in BOOLEAN : EndSession(writeOk)

StudyRate ==
    /\ reviewCalls < TMaxRatings
    /\ \E difficulty \in {"again", "good"} :
          HandleDifficultyResponse(difficulty, TRUE, TRUE, TRUE)

NextStudy == StudyTick \/ StudyLoad \/ StudyStart \/ StudyEnd \/ StudyRate

SpecStudy == InitStudy /\ [][NextStudy]_vars

(***************************************************************************)
(* The content of cards and the categories: the edit page of a card        *)
(* (EditCardPage.handleSubmit) and the categories page                     *)
(* (CategoriesPage.handleSubmit, handleDelete).  Of the content of a card  *)
(* its front and its category are kept; names are in lower case, so that   *)
(* the comparisons of toLowerCase() are comparisons of the names.          *)
(***************************************************************************)

\* category: undefined
NoCategory == "undefined"

\* A card with its content.
withContent(card, front, category) ==
    [key \in DOMAIN card \cup {"front", "category"} |->
        IF key = "front" THEN front
        ELSE IF key = "category" THEN category
        ELSE card[key]]

\* allCards.filter(card => card.category === name).length
cardCountOf(stored, name) ==
    Cardinality({i \in 1..Len(stored) : stored[i].category = name})

\* categories.find(cat => cat.name === name), 1-based; 0 when absent.
findCategory(stored, name) ==
    IF \E i \in 1..Len(stored) : stored[i].name = name
    THEN CHOOSE i \in 1..Len(stored) :
            /\ stored[i].name = name
            /\ \A j \in 1..(i - 1) : stored[j].name # name
    ELSE 0

\* CategoryStorage.add(category): the categories it saves; id is what
\* generateId returned.
CategoryStorageAdd(stored, name, id, writeOk) ==
    StorageSet(stored, Append(stored, [id |-> id, name |-> name, cardCount |-> 0]),
               writeOk)

\* CategoryStorage.updateCardCount(categoryName, count): the categories it
\* saves; an unknown name writes nothing.
CategoryStorageUpdateCardCount(stored, categoryName, count, writeOk) ==
    LET index == findCategory(stored, categoryName)
    IN  IF index = 0 THEN stored
        ELSE StorageSet(stored, [stored EXCEPT ![index].cardCount = count], writeOk)

\* loadCategories(): the stored categories, each with the number of stored
\* cards that bear its name.
loadCategories(storedCategories, storedCards) ==
    [i \in 1..Len(storedCategories) |->
        [storedCategories[i] EXCEPT
            !.cardCount = cardCountOf(storedCards, storedCategories[i].name)]]

\* The object the edit page passes to CardStorage.update.
editUpdates(front, category) == [front |-> front, category |-> category]

\* EditCardPage.handleSubmit for the card the page loaded, with the front and
\* the category of the form (NoCategory for an empty field).  The page holds
\* the categories as they are stored.
EditCard(card, front, category, cardsWriteOk, categoriesWriteOk) ==
    LET created == category # NoCategory /\ findCategory(categories, category) = 0
        added == IF created
                 THEN CategoryStorageAdd(categories, category, generated + 1,
                                         categoriesWriteOk)
                 ELSE categories
        others == SelectSeq(cards, LAMBDA c : c.id # card.id)
        counted == IF card.category # NoCategory /\ card.category # category
                   THEN CategoryStorageUpdateCardCount(added, card.category,
                            cardCountOf(others, card.category), categoriesWriteOk)
                   ELSE added
        updated == CardStorageUpdate(cards, card.id, editUpdates(front, category),
                                     cardsWriteOk)
    IN  /\ cards' = updated
        /\ categories' = IF category # NoCategory
                         THEN CategoryStorageUpdateCardCount(counted, category,
                                  cardCountOf(updated, category), categoriesWriteOk)
                         ELSE counted
        /\ generated' = IF created THEN generated + 1 ELSE generated
        /\ UNCHANGED <<now, progress, lastReview, reviewCalls, queueCall, sessions,
                       settings, exportCall, importCall, streakCall, damage,
                       loadCall, page>>

\* validateForm() of the categories page: a name is given and no other
\* category bears it.
validateForm(pageCategories, editingId, name) ==
    /\ name # NoCategory
    /\ \A i \in 1..Len(pageCategories) :
          pageCategories[i].name = name => pageCategories[i].id = editingId

\* CategoriesPage.handleSubmit with the form holding name: editingId is the
\* id of the category being edited, 0 when a category is being created.  The
\* page holds the categories as loadCategories() read them.
HandleSubmit(editingId, name, cardsWriteOk, categoriesWriteOk) ==
    LET pageCategories == loadCategories(categories, cards)
        index == findIndex(pageCategories, editingId)
        oldName == pageCategories[index].name
    IN  /\ validateForm(pageCategories, editingId, name)
        /\ IF editingId # 0
           THEN /\ index # 0
                /\ categories' = StorageSet(categories,
                                    [i \in 1..Len(pageCategories) |->
                                        IF pageCategories[i].id = editingId
                                        THEN [pageCategories[i] EXCEPT !.name = name]
                                        ELSE pageCategories[i]],
                                    categoriesWriteOk)
                /\ cards' = IF oldName # name
                            THEN StorageSet(cards,
                                    [i \in 1..Len(cards) |->
                                        IF cards[i].category = oldName
                                        THEN spread(cards[i], [category |-> name])
                                        ELSE cards[i]],
                                    cardsWriteOk)
                            ELSE cards
                /\ generated' = generated
           ELSE /\ categories' = CategoryStorageAdd(categories, name, generated + 1,
                                                    categoriesWriteOk)
                /\ cards' = cards
                /\ generated' = generated + 1
        /\ UNCHANGED <<now, progress, lastReview, reviewCalls, queueCall, sessions,
                       settings, exportCall, importCall, streakCall, damage,
                       loadCall, page>>

\* CategoriesPage.handleDelete(category), the user confirming.
HandleDelete(categoryId, cardsWriteOk, categoriesWriteOk) ==
    LET pageCategories == loadCategories(categories, cards)
        index == findIndex(pageCategories, categoryId)
        category == pageCategories[index]
    IN  /\ index # 0
        /\ cards' = StorageSet(cards,
                        [i \in 1..Len(cards) |->
                            IF cards[i].category = category.name
                            THEN spread(cards[i], [category |-> NoCategory])
                            ELSE cards[i]],
                        cardsWriteOk)
        /\ categories' = StorageSet(categories,
                            SelectSeq(pageCategories, LAMBDA cat : cat.id # categoryId),
                            categoriesWriteOk)
        /\ UNCHANGED <<now, progress, lastReview, reviewCalls, queueCall, sessions,
                       settings, exportCall, importCall, streakCall, damage,
                       loadCall, page, generated>>

(***************************************************************************)
(* Content and categories over a store of one card that was reviewed and   *)
(* one that is new, neither in a category: the cards are edited and        *)
(* reviewed ('again' or 'good'), categories are created, renamed and       *)
(* deleted; the writes of a handler all go through or are all dropped.     *)
(***************************************************************************)
CMaxReviews == 1       \* processReview calls in the content specification
CMaxCategories == 2    \* categories created in it

Fronts == {"question", "question, reworded"}
Names == {"math", "art"}

InitContent ==
    /\ now = MinutesPerDay
    /\ cards = <<withContent(dueOnlyCard(1), "question", NoCategory),
                 withContent(newCard(2, MinutesPerDay), "question", NoCategory)>>
    /\ progress = defaultProgress
    /\ lastReview = None
    /\ reviewCalls = 0
    /\ queueCall = None
    /\ NoBackup

ContentEdit ==
    \E i \in 1..Len(cards), front \in Fronts, category \in Names \cup {NoCategory},
       writeOk \in BOOLEAN :
        /\ findCategory(categories, category) = 0 => generated < CMaxCategories
        /\ EditCard(cards[i], front, category, writeOk, writeOk)

ContentSubmit ==
    \E editingId \in {0} \cup {categories[i].id : i \in 1..Len(categories)},
       name \in Names, writeOk \in BOOLEAN :
        /\ editingId = 0 => generated < CMaxCategories
        /\ HandleSubmit(editingId, name, writeOk, writeOk)

ContentDelete ==
    \E i \in 1..Len(categories), writeOk \in BOOLEAN :
        HandleDelete(categories[i].id, writeOk, writeOk)

ContentReview ==
    /\ reviewCalls < CMaxReviews
    /\ \E i \in 1..Len(cards), difficulty \in {"again", "good"} :
          ProcessReview(cards[i], difficulty, 3, TRUE, TRUE)

NextContent == ContentEdit \/ ContentSubmit \/ ContentDelete \/ ContentReview

SpecContent == InitContent /\ [][NextContent]_vars

(***************************************************************************)
(* The stored progress under the operations of the application: from a     *)
(* store of one new card and no review, the first card stored is reviewed  *)
(* ('again' or 'good'), cards are created and deleted, a day passes, the   *)
(* data are reset, and once imported, from a document written by hand     *)
(* that holds a progress, null for it or no progress, and nothing else.    *)
(* The write of an import goes through or is dropped, the other writes go  *)
(* through; after the import the first card is reviewed.                   *)
(***************************************************************************)
PMaxReviews == 2     \* processReview calls in the progress specification

\* CardStorage.delete(id): the cards it saves; an unknown id writes nothing.
CardStorageDelete(stored, id, writeOk) ==
    LET index == findIndex(stored, id)
    IN  IF index = 0 THEN stored
        ELSE StorageSet(stored,
                        SubSeq(stored, 1, index - 1)
                            \o SubSeq(stored, index + 1, Len(stored)),
                        writeOk)

\* handleDeleteCard(id) of the cards page, the user confirming.
DeleteCard(id, writeOk) ==
    /\ cards' = CardStorageDelete(cards, id, writeOk)
    /\ UNCHANGED <<now, progress, lastReview, reviewCalls, queueCall, backupVars>>

ProgressDocuments ==
    {jsonData \in HandDocuments :
        jsonData.kind = "object" =>
            /\ jsonData.cards = Missing
            /\ jsonData.sessions = Missing
            /\ jsonData.categories = Missing
            /\ jsonData.settings = Missing}

InitProgress ==
    /\ now = 0
    /\ cards = <<newCard(1, 0)>>
    /\ progress = defaultProgress
    /\ lastReview = None
    /\ reviewCalls = 0
    /\ queueCall = None
    /\ sessions = << >>
    /\ categories = << >>
    /\ settings = defaultSettings
    /\ exportCall = None
    /\ importCall = None
    /\ streakCall = None
    /\ damage = Intact
    /\ loadCall = None
    /\ page = ClosedPage
    /\ generated = 1

ProgressReview ==
    /\ reviewCalls < PMaxReviews
    /\ Len(cards) > 0
    /\ \E difficulty \in {"again", "good"} :
          ProcessReview(cards[1], difficulty, 3, TRUE, TRUE)

ProgressAdd ==
    /\ importCall = None
    /\ generated < MaxCards
    /\ AddCard(TRUE)

ProgressDelete ==
    /\ importCall = None
    /\ \E i \in 1..Len(cards) : DeleteCard(cards[i].id, TRUE)

ProgressTick ==
    /\ importCall = None
    /\ TickDay

ProgressClear ==
    /\ importCall = None
    /\ Store # EmptyStore
    /\ ClearAllData

ProgressImport ==
    /\ importCall = None
    /\ \E jsonData \in ProgressDocuments, writeOk \in BOOLEAN :
          ImportData(jsonData, [key \in CollectionKeys |-> writeOk])

NextProgress ==
    \/ ProgressTick
    \/ ProgressReview
    \/ ProgressAdd
    \/ ProgressDelete
    \/ ProgressClear
    \/ ProgressImport

SpecProgress == InitProgress /\ [][NextProgress]_vars

(***************************************************************************)
(* Reviews next to deletions: a store of one due card and one new card;    *)
(* the study queue is read once, cards are deleted on the cards page, and  *)
(* processReview is handed a stored card, a card of the queue or the card  *)
(* the last call returned - a card that may have been deleted since.      *)
(***************************************************************************)
FMaxReviews == 2     \* processReview calls in the deletion specification

\* What CardStorage.update(id, updates) returns: null for an unknown id.
CardStorageUpdateReturn(stored, id, updates) ==
    LET index == findIndex(stored, id)
    IN  IF index = 0 THEN JsonNull ELSE Value(spread(stored[index], updates))

\* What CardStorage.delete(id) returns: false for an unknown id.
CardStorageDeleteReturn(stored, id) == findIndex(stored, id) # 0

InitFrame ==
    /\ now = MinutesPerDay
    /\ cards = <<dueOnlyCard(1), newOnlyCard(2)>>
    /\ progress = defaultProgress
    /\ lastReview = None
    /\ reviewCalls = 0
    /\ queueCall = None
    /\ NoBackup

FrameQueue ==
    /\ queueCall = None
    /\ GetStudyQueue(DefaultMaxNewCards, DefaultMaxReviews)

FrameDelete ==
    \E i \in 1..Len(cards), writeOk \in BOOLEAN : DeleteCard(cards[i].id, writeOk)

FrameReview ==
    /\ reviewCalls < FMaxReviews
    /\ \E card \in ReviewArgs, difficulty \in Difficulty,
          cardWriteOk \in BOOLEAN, progressWriteOk \in BOOLEAN :
            ProcessReview(card, difficulty, 3, cardWriteOk, progressWriteOk)

NextFrame == FrameQueue \/ FrameDelete \/ FrameReview

SpecFrame == InitFrame /\ [][NextFrame]_vars

(***************************************************************************)
(* Properties of the review transition.                                    *)
(***************************************************************************)

Reviewed(difficulty) == lastReview # None /\ lastReview.difficulty = difficulty

\* r is x = num / den rounded to the nearest integer, halves upwards.
IsRounded(r, num, den) == 2 * den * r - den <= 2 * num /\ 2 * num < 2 * den * r + den

\* C1: every stored card, and the card every processReview returns, has its
\* easeFactor in [1.3, 2.5].
C1_EaseFactorInRange ==
    /\ \A i \in 1..Len(cards) :
          cards[i].easeFactor >= 130 /\ cards[i].easeFactor <= 250
    /\ lastReview # None =>
          lastReview.result.easeFactor >= 130 /\ lastReview.result.easeFactor <= 250

\* Two 'hard' reviews of a card that started at easeFactor 1.40 were stored:
\* the first lifted 1.25 to 1.3, the second lifted 1.15 to 1.3.
C1_Witness ==
    /\ Reviewed("hard")
    /\ reviewCalls = 2
    /\ lastReview.card.totalReviews = 1
    /\ lastReview.card.correctReviews = 1
    /\ lastReview.card.easeFactor = 130
    /\ cards[1] = lastReview.result
    /\ cards[1].easeFactor = 130

\* C2: 'again' returns repetitions 0, interval 0, streak 0, the easeFactor it
\* was given, and a nextReviewDate one minute after the review.
C2_AgainResets ==
    Reviewed("again") =>
        /\ lastReview.result.repetitions = 0
        /\ lastReview.result.interval = 0
        /\ lastReview.result.streak = 0
        /\ lastReview.result.easeFactor = lastReview.card.easeFactor
        /\ lastReview.result.nextReviewDate = lastReview.at + 1

\* 'again' on a card with interval 7, three repetitions and a streak of three.
C2_Witness ==
    /\ Reviewed("again")
    /\ lastReview.card.interval = 7
    /\ lastReview.card.repetitions = 3
    /\ lastReview.card.streak = 3
    /\ lastReview.at > 0

\* C3: 'good' keeps the easeFactor; repetitions 0 -> 1 with interval 1,
\* 1 -> 2 with interval 6, otherwise + 1 with interval round(interval x easeFactor).
C3_GoodTransition ==
    Reviewed("good") =>
        LET c == lastReview.card
            r == lastReview.result
        IN  /\ r.easeFactor = c.easeFactor
            /\ c.repetitions = 0 => r.repetitions = 1 /\ r.interval = 1
            /\ c.repetitions = 1 => r.repetitions = 2 /\ r.interval = 6
            /\ c.repetitions >= 2 =>
                  /\ r.repetitions = c.repetitions + 1
                  /\ IsRounded(r.interval, c.interval * c.easeFactor, 100)

\* 'good' on a card with interval 7 at easeFactor 2.5: 17.5 rounds to 18.
C3_Witness ==
    /\ Reviewed("good")
    /\ lastReview.card.repetitions = 2
    /\ lastReview.card.interval = 7
    /\ lastReview.card.easeFactor = 250
    /\ lastReview.result.interval = 18

\* C4: 'hard' sets easeFactor to max(1.3, easeFactor - 0.15); repetitions
\* 0 -> 1 with interval 1, 1 -> 2 with interval 2, otherwise + 1 with interval
\* max(1, round(interval x the lowered easeFactor x 0.8)).
C4_HardTransition ==
    Reviewed("hard") =>
        LET c == lastReview.card
            r == lastReview.result
            x == c.interval * r.easeFactor * 8
        IN  /\ c.easeFactor - 15 >= 130 => r.easeFactor = c.easeFactor - 15
            /\ c.easeFactor - 15 < 130 => r.easeFactor = 130
            /\ c.repetitions = 0 => r.repetitions = 1 /\ r.interval = 1
            /\ c.repetitions = 1 => r.repetitions = 2 /\ r.interval = 2
            /\ c.repetitions >= 2 =>
                  /\ r.repetitions = c.repetitions + 1
                  /\ \/ r.interval >= 1 /\ IsRounded(r.interval, x, 1000)
                     \/ r.interval = 1 /\ IsRounded(0, x, 1000)

\* 'hard' on a card with interval 7 at easeFactor 1.40: 7 x 1.3 x 0.8 = 7.28.
C4_Witness ==
    /\ Reviewed("hard")
    /\ lastReview.card.repetitions = 3
    /\ lastReview.card.interval = 7
    /\ lastReview.card.easeFactor = 140
    /\ lastReview.result.interval = 7

\* C5: 'easy' sets easeFactor to min(2.5, easeFactor + 0.1); repetitions
\* 0 -> 1 with interval 4, 1 -> 2 with interval 8, otherwise + 1 with interval
\* round(interval x the raised easeFactor x 1.3).
C5_EasyTransition ==
    Reviewed("easy") =>
        LET c == lastReview.card
            r == lastReview.result
        IN  /\ c.easeFactor + 10 <= 250 => r.easeFactor = c.easeFactor + 10
            /\ c.easeFactor + 10 > 250 => r.easeFactor = 250
            /\ c.repetitions = 0 => r.repetitions = 1 /\ r.interval = 4
            /\ c.repetitions = 1 => r.repetitions = 2 /\ r.interval = 8
            /\ c.repetitions >= 2 =>
                  /\ r.repetitions = c.repetitions + 1
                  /\ IsRounded(r.interval, c.interval * r.easeFactor * 13, 1000)

\* 'easy' on a card with interval 2 at easeFactor 2.45: 2 x 2.5 x 1.3 = 6.5 rounds to 7.
C5_Witness ==
    /\ Reviewed("easy")
    /\ lastReview.card.repetitions = 2
    /\ lastReview.card.interval = 2
    /\ lastReview.card.easeFactor = 245
    /\ lastReview.result.easeFactor = 250
    /\ lastReview.result.interval = 7

\* C6: nextReviewDate is the review time plus the new interval in days, and
\* for 'again' the review time plus one minute, the interval being 0.
C6_NextReviewDate ==
    lastReview # None =>
        IF lastReview.difficulty = "again"
        THEN /\ lastReview.result.nextReviewDate = lastReview.at + 1
             /\ lastReview.result.interval = 0
        ELSE lastReview.result.nextReviewDate
                = lastReview.at + lastReview.result.interval * 1440

\* A 'good' review made a day after the start moved the interval from 7 to 18 days.
C6_Witness ==
    /\ Reviewed("good")
    /\ lastReview.at = 1440
    /\ lastReview.card.interval = 7
    /\ lastReview.result.interval = 18
    /\ lastReview.result.nextReviewDate = 1440 + 18 * 1440

(***************************************************************************)
(* Properties of queue construction.                                       *)
(***************************************************************************)

Queued == queueCall # None

\* C7: with five due cards and one other, new card, under limits of 10 and 10,
\* the queue is due0, due1, new0, due2, due3, due4.
C7_FiveDueOneNew ==
    (/\ Queued
     /\ queueCall.maxReviews = 10 /\ queueCall.maxNewCards = 10
     /\ Len(queueCall.dueCards) = 5 /\ Len(queueCall.newCards) = 1
     /\ \A i \in 1..5 : queueCall.dueCards[i] # queueCall.newCards[1])
    => queueCall.queue = << queueCall.dueCards[1], queueCall.dueCards[2],
                            queueCall.newCards[1], queueCall.dueCards[3],
                            queueCall.dueCards[4], queueCall.dueCards[5] >>

\* Entries of the queue that precede the entries of pass i (0-based), for a due
\* list of D cards and a new list of N cards.
Offset(i, D, N) == Min(i, D) + Min(i, Max(D - 1, 0)) + Min(i, N)

\* C8: the queue is, pass by pass for i from 0 while i < max(dueCount, newCount),
\* due[i] if present, then due[i+1] if present, then new[i] if present.
C8_InterleavePolicy ==
    Queued =>
        LET due == queueCall.dueCards
            new == queueCall.newCards
            q == queueCall.queue
            D == Len(due)
            N == Len(new)
        IN  /\ Len(q) = D + Max(D - 1, 0) + N
            /\ \A i \in 0..(Max(D, N) - 1) :
                  LET o == Offset(i, D, N)
                      a == IF i < D THEN 1 ELSE 0
                      b == IF i + 1 < D THEN 1 ELSE 0
                  IN  /\ i < D => q[o + 1] = due[i + 1]
                      /\ i + 1 < D => q[o + 2] = due[i + 2]
                      /\ i < N => q[o + a + b + 1] = new[i + 1]

\* A queue built from three due cards and two new cards: seven entries.
C8_Witness ==
    /\ Queued
    /\ Len(queueCall.dueCards) = 3
    /\ Len(queueCall.newCards) = 2
    /\ Len(queueCall.queue) = 7

\* C9: the due list holds at most maxReviews cards and the new list at most
\* maxNewCards cards, for limits of 0 as well.
C9_ListsCapped ==
    Queued =>
        /\ Len(queueCall.dueCards) <= queueCall.maxReviews
        /\ Len(queueCall.newCards) <= queueCall.maxNewCards

\* C10: with no stored card due and no stored card at repetitions 0, the queue
\* is empty.
C10_EmptyQueue ==
    (/\ Queued
     /\ \A i \in 1..Len(cards) :
           cards[i].nextReviewDate > now /\ cards[i].repetitions # 0)
    => queueCall.queue = << >>

\* A queue was built over two stored cards, neither due nor new.
C10_Witness ==
    /\ Queued
    /\ Len(cards) = 2
    /\ \A i \in 1..Len(cards) :
          cards[i].nextReviewDate > now /\ cards[i].repetitions # 0
    /\ queueCall.queue = << >>

(***************************************************************************)
(* Properties of the statistics a review keeps.                            *)
(***************************************************************************)

\* C11: the card processReview returns has totalReviews one higher for every
\* difficulty, correctReviews one higher exactly when the difficulty is not
\* 'again' (and unchanged otherwise), and streak one higher when the
\* difficulty is not 'again' and 0 when it is.
C11_CardStatistics ==
    lastReview # None =>
        LET c == lastReview.card
            r == lastReview.result
        IN  /\ r.totalReviews = c.totalReviews + 1
            /\ r.correctReviews = c.correctReviews + 1 <=> lastReview.difficulty # "again"
            /\ r.correctReviews = c.correctReviews <=> lastReview.difficulty = "again"
            /\ lastReview.difficulty # "again" => r.streak = c.streak + 1
            /\ lastReview.difficulty = "again" => r.streak = 0

\* 'again' on a card answered correctly three times in a row: four reviews,
\* three of them correct, the streak gone.
C11_Witness ==
    /\ Reviewed("again")
    /\ lastReview.card.totalReviews = 3
    /\ lastReview.card.streak = 3
    /\ lastReview.result.totalReviews = 4
    /\ lastReview.result.correctReviews = 3
    /\ lastReview.result.streak = 0

\* C12: each review makes averageResponseTime the running mean
\* (prevAvg x prevCount + newTime) / (prevCount + 1), prevAvg being 0 when
\* undefined, so that averageResponseTime x totalReviews is the sum of the
\* card's response times, an earlier response time of 0 included.
C12_RunningMean ==
    lastReview # None =>
        LET c == lastReview.card
            r == lastReview.result
            prevAvg == IF c.averageResponseTime = Undefined THEN Frac(0, 1)
                       ELSE c.averageResponseTime
        IN  \* avg x totalReviews = prevAvg x prevCount + newTime, cross-multiplied
            r.averageResponseTime.n * r.totalReviews * prevAvg.d
                = (prevAvg.n * c.totalReviews + lastReview.responseTime * prevAvg.d)
                      * r.averageResponseTime.d

\* C13: a processReview whose progress is stored adds 1 to the lifetime
\* totalReviews and 1 to the lifetime correctReviews exactly when the
\* difficulty is not 'again'; the stored accuracy is correctReviews /
\* totalReviews as a percentage, 0 when totalReviews is 0; 3 correct reviews
\* and 1 'again' from an empty history give 75.
C13_LifetimeStats ==
    LET a == progress.lifetimeStats
    IN  /\ (lastReview # None /\ ~lastReview.progressWriteFailed) =>
              LET b == lastReview.progressBefore.lifetimeStats
              IN  /\ a.totalReviews = b.totalReviews + 1
                  /\ a.correctReviews = b.correctReviews + 1
                        <=> lastReview.difficulty # "again"
                  /\ a.correctReviews = b.correctReviews
                        <=> lastReview.difficulty = "again"
        /\ a.totalReviews = 0 => a.accuracy = [n |-> 0, d |-> 1]
        /\ a.totalReviews > 0 =>
              a.accuracy.n * a.totalReviews = 100 * a.correctReviews * a.accuracy.d
        /\ (a.totalReviews = 4 /\ a.correctReviews = 3) => a.accuracy = [n |-> 75, d |-> 1]

\* The fourth review, an 'again' after three correct ones, was stored: 75%.
C13_Witness ==
    /\ Reviewed("again")
    /\ ~lastReview.progressWriteFailed
    /\ lastReview.progressBefore.lifetimeStats.totalReviews = 3
    /\ lastReview.progressBefore.lifetimeStats.correctReviews = 3
    /\ progress.lifetimeStats.totalReviews = 4
    /\ progress.lifetimeStats.accuracy = [n |-> 75, d |-> 1]

(***************************************************************************)
(* Properties of persistence.                                              *)
(***************************************************************************)

\* The store holds, under the id of the card last reviewed, the card that
\* review returned.
CardUpdatePersisted ==
    LET index == findIndex(cards, lastReview.result.id)
    IN  index # 0 /\ cards[index] = lastReview.result

\* The store holds the progress of before the last review with that review
\* counted in its daily and lifetime statistics.
ProgressUpdatePersisted ==
    /\ progress.lifetimeStats.totalReviews
          = lastReview.progressBefore.lifetimeStats.totalReviews + 1
    /\ LET k == findDaily(progress.dailyStats, getTodayString(lastReview.at))
           b == findDaily(lastReview.progressBefore.dailyStats, getTodayString(lastReview.at))
       IN  /\ k # 0
           /\ progress.dailyStats[k].cardsStudied
                 = IF b = 0 THEN 1
                   ELSE lastReview.progressBefore.dailyStats[b].cardsStudied + 1

\* C14: after a processReview, either both the card update and the progress
\* update are persisted or neither is, whether or not a storage write failed.
C14_AllOrNothing ==
    lastReview # None => (CardUpdatePersisted <=> ProgressUpdatePersisted)

\* C15: a processReview one of whose writes failed reports an error: it
\* throws, or returns something else than the card a successful call returns.
C15_WriteFailureReported ==
    (/\ lastReview # None
     /\ lastReview.cardWriteFailed \/ lastReview.progressWriteFailed)
    => \/ lastReview.threw
       \/ lastReview.result # updatedCardOf(lastReview.card, lastReview.difficulty,
                                            lastReview.responseTime, lastReview.at)

(***************************************************************************)
(* Properties of backup and restore.                                       *)
(***************************************************************************)

Imported == importCall # None

\* C16: importData of text that is no JSON returns false and leaves the
\* cards, the progress, the sessions, the categories and the settings as
\* they were.
C16_MalformedImport ==
    (Imported /\ importCall.jsonData.kind = "malformed") =>
        /\ importCall.result = FALSE
        /\ cards = importCall.before.cards
        /\ progress = importCall.before.progress
        /\ sessions = importCall.before.sessions
        /\ categories = importCall.before.categories
        /\ settings = importCall.before.settings

\* Text that is no JSON was imported into a store of two cards.
C16_Witness ==
    /\ Imported
    /\ importCall.jsonData.kind = "malformed"
    /\ importCall.result = FALSE
    /\ Len(importCall.before.cards) = 2
    /\ Len(cards) = 2

\* C17: after an importData that returned true and whose writes all went
\* through, every collection whose key the document holds is the document's
\* value (read as empty when that value is null), and every collection whose
\* key the document lacks is what it was.
C17_ImportReplaces ==
    (Imported /\ importCall.result /\ importCall.writeFailed = {}) =>
        \A key \in CollectionKeys :
            LET entry == importCall.jsonData[key]
            IN  /\ entry.kind = "missing" => Store[key] = importCall.before[key]
                /\ entry.kind = "value" => Store[key] = revive(key, entry.value)
                /\ entry.kind = "null" => Store[key] = EmptyStore[key]

Studied(day) ==
    \E i \in 1..Len(progress.dailyStats) :
        progress.dailyStats[i].date = day /\ progress.dailyStats[i].cardsStudied > 0

\* C19: calculateStudyStreak returns the largest k such that each of today,
\* today-1, ..., today-(k-1) has a DailyStat with cardsStudied > 0, whatever
\* DailyStats are stored; with entries for today, today-1 and today-2 and
\* none for today-3 it returns 3.
C19_StudyStreak ==
    streakCall # None =>
        LET today == formatDate(streakCall.at)
            k == streakCall.result
        IN  /\ \A j \in 0..(k - 1) : Studied(today - j)
            /\ ~Studied(today - k)
            /\ (Studied(today) /\ Studied(today - 1) /\ Studied(today - 2)
                   /\ \A i \in 1..Len(progress.dailyStats) :
                         progress.dailyStats[i].date # today - 3)
               => k = 3

(***************************************************************************)
(* Properties of the reset on 'again'.                                     *)
(***************************************************************************)

\* C20: the card a review returns has repetitions 0 exactly when the review
\* was 'again' and streak 0 exactly when the review was 'again'; after every
\* other review both are at least 1.
C20_ResetExactlyOnAgain ==
    lastReview # None =>
        LET r == lastReview.result
        IN  /\ r.repetitions = 0 <=> lastReview.difficulty = "again"
            /\ r.streak = 0 <=> lastReview.difficulty = "again"
            /\ lastReview.difficulty # "again" => r.repetitions >= 1 /\ r.streak >= 1

\* A card answered correctly once was answered 'again': repetitions and streak
\* went from 1 to 0, in the store as well.
C20_Witness ==
    /\ Reviewed("again")
    /\ reviewCalls = 2
    /\ lastReview.card.repetitions = 1
    /\ lastReview.card.streak = 1
    /\ lastReview.result.repetitions = 0
    /\ lastReview.result.streak = 0
    /\ cards[1] = lastReview.result

(***************************************************************************)
(* Properties of sequences of reviews.                                     *)
(***************************************************************************)

\* C21: every 'easy' review, the first of a sequence or a later one, returns an
\* easeFactor that is not below the one it was given and not above 2.5.
C21_EasyNeverLowers ==
    Reviewed("easy") =>
        /\ lastReview.result.easeFactor >= lastReview.card.easeFactor
        /\ lastReview.result.easeFactor <= 250

\* The second of two 'easy' reviews of a card that started at 2.45: the first
\* lifted it to 2.5, the second left it there.
C21_Witness ==
    /\ Reviewed("easy")
    /\ reviewCalls = 2
    /\ lastReview.card.totalReviews = 1
    /\ lastReview.card.streak = 1
    /\ lastReview.card.repetitions = 1
    /\ lastReview.card.interval = 4
    /\ lastReview.card.easeFactor = 250
    /\ lastReview.result.easeFactor = 250
    /\ cards[1] = lastReview.result

(***************************************************************************)
(* Properties of the loaders.                                              *)
(***************************************************************************)

\* C22: a loader whose collection is missing from the store, or stored as
\* text that is no JSON, does not throw and returns the default: an empty list
\* of cards, of sessions and of categories, the zeroed progress with an empty
\* dailyStats list, the default settings.
C22_LoadersDefault ==
    loadCall # None =>
        \A key \in CollectionKeys :
            damage[key] \in {"removed", "emptied", "truncated"} =>
                /\ ~loadCall.returned[key].threw
                /\ key \in {"cards", "sessions", "categories"} =>
                      loadCall.returned[key].value = << >>
                /\ key = "progress" =>
                      /\ loadCall.returned[key].value.dailyStats = << >>
                      /\ loadCall.returned[key].value.lifetimeStats.totalReviews = 0
                      /\ loadCall.returned[key].value.lifetimeStats.correctReviews = 0
                /\ key = "settings" =>
                      /\ loadCall.returned[key].value.maxNewCards = 10
                      /\ loadCall.returned[key].value.maxReviews = 50
                      /\ loadCall.returned[key].value.dailyGoal = 20

\* The cards of a store of two were cut short, its progress was removed, its
\* sessions are as written: the loaders return no card, the zeroed progress
\* and the two sessions.
C22_Witness ==
    /\ loadCall # None
    /\ Len(cards) = 2
    /\ damage["cards"] = "truncated"
    /\ damage["progress"] = "removed"
    /\ damage["sessions"] = "none"
    /\ damage["settings"] = "truncated"
    /\ loadCall.returned["cards"].value = << >>
    /\ loadCall.returned["progress"].value.dailyStats = << >>
    /\ loadCall.returned["sessions"].value = sessions
    /\ Len(sessions) = 2

\* C23: every stored card that has been reviewed (totalReviews >= 1) has
\* repetitions >= 1, and so is not in the new set.
C23_ReviewedNotNew ==
    \A i \in 1..Len(cards) :
        cards[i].totalReviews >= 1 =>
            /\ cards[i].repetitions >= 1
            /\ \A j \in 1..Len(CardStorageGetNewCards(cards)) :
                  CardStorageGetNewCards(cards)[j].id # cards[i].id

(***************************************************************************)
(* Properties of the daily statistics.                                     *)
(***************************************************************************)

\* The calendar date, counted in days as formatDate counts them, of the
\* instant t on a clock that is offset minutes ahead of UTC.
localDate(t, offset) == (t + offset) \div MinutesPerDay

\* C24: the date key under which a review is counted in the DailyStats is the
\* local calendar date at the moment of the review, at every time of the day
\* and for every offset between local time and UTC.
C24_LocalDateKey ==
    (lastReview # None /\ ~lastReview.progressWriteFailed) =>
        \A offset \in TimezoneOffsets :
            LET date == localDate(lastReview.at, offset)
                k == findDaily(progress.dailyStats, date)
                b == findDaily(lastReview.progressBefore.dailyStats, date)
            IN  /\ k # 0
                /\ progress.dailyStats[k].cardsStudied
                      = IF b = 0 THEN 1
                        ELSE lastReview.progressBefore.dailyStats[b].cardsStudied + 1

\* C25: the stored DailyStats hold at most one entry per date key; the first
\* review of a day adds the day's entry with cardsStudied 1, correctAnswers 1
\* exactly when the answer was correct and studyTime the response time; a
\* later review of that day adds 1 to the entry's cardsStudied, 1 to its
\* correctAnswers exactly when the answer was correct and the response time
\* to its studyTime; the entries of other days are left as they were.  Stated
\* for reviews whose write of the progress went through.
C25_OneEntryPerDay ==
    /\ \A i, j \in 1..Len(progress.dailyStats) :
          progress.dailyStats[i].date = progress.dailyStats[j].date => i = j
    /\ (lastReview # None /\ ~lastReview.progressWriteFailed) =>
          LET before == lastReview.progressBefore.dailyStats
              after == progress.dailyStats
              today == lastReview.at \div MinutesPerDay
              right == IF lastReview.difficulty # "again" THEN 1 ELSE 0
              b == findDaily(before, today)
              k == findDaily(after, today)
          IN  /\ k # 0
              /\ b = 0 =>
                    /\ Len(after) = Len(before) + 1
                    /\ after[k].cardsStudied = 1
                    /\ after[k].correctAnswers = right
                    /\ after[k].studyTime = lastReview.responseTime
              /\ b # 0 =>
                    /\ Len(after) = Len(before)
                    /\ after[k].cardsStudied = before[b].cardsStudied + 1
                    /\ after[k].correctAnswers = before[b].correctAnswers + right
                    /\ after[k].studyTime = before[b].studyTime + lastReview.responseTime
              /\ \A i \in 1..Len(before) :
                    before[i].date # today => after[i] = before[i]

\* The third review is the second of the second day, a correct answer after
\* three seconds following a wrong one: the day's entry counts two
\* cards, and the entry of the first day is as it was.
C25_Witness ==
    /\ Reviewed("good")
    /\ ~lastReview.progressWriteFailed
    /\ lastReview.responseTime = 3
    /\ lastReview.at \div MinutesPerDay = 1
    /\ Len(progress.dailyStats) = 2
    /\ Len(lastReview.progressBefore.dailyStats) = 2
    /\ progress.dailyStats[1].date = 0
    /\ progress.dailyStats[1] = lastReview.progressBefore.dailyStats[1]
    /\ progress.dailyStats[2].date = 1
    /\ lastReview.progressBefore.dailyStats[2].cardsStudied = 1
    /\ lastReview.progressBefore.dailyStats[2].correctAnswers = 0
    /\ progress.dailyStats[2].cardsStudied = 2
    /\ progress.dailyStats[2].correctAnswers = 1
    /\ progress.dailyStats[2].studyTime = 6

(***************************************************************************)
(* The scheduling state of a card as a state machine.                      *)
(***************************************************************************)

\* New (repetitions = 0), Learning (repetitions 1 or 2), Review (3 and more).
State(repetitions) ==
    IF repetitions = 0 THEN "New"
    ELSE IF repetitions <= 2 THEN "Learning"
    ELSE "Review"

\* C28: from every state 'again' leads to New; in every state a review of
\* every difficulty can be made (processReview has no precondition: the
\* review of the stored card has an outcome for every difficulty, and the
\* outcome is a state); every review other than 'again' raises repetitions by
\* exactly 1, so that a New card becomes a Learning card and only a Learning
\* card becomes a Review card.
C28_StateMachine ==
    /\ \A difficulty \in Difficulty :
          LET next == calculateNext(cards[1], difficulty, now)
          IN  /\ State(next.repetitions) \in {"New", "Learning", "Review"}
              /\ difficulty = "again" => State(next.repetitions) = "New"
              /\ difficulty # "again" => next.repetitions = cards[1].repetitions + 1
    /\ lastReview # None =>
          LET before == lastReview.card.repetitions
              after == lastReview.result.repetitions
          IN  /\ lastReview.difficulty = "again" => State(after) = "New"
              /\ lastReview.difficulty # "again" =>
                    /\ after = before + 1
                    /\ State(before) = "New" => State(after) = "Learning"
                    /\ State(after) = "Review" /\ State(before) # "Review" =>
                          State(before) = "Learning"

\* The card went from New through Learning to Review in three reviews, and
\* the fourth, 'again', takes it back to New.
C28_Witness ==
    /\ Reviewed("again")
    /\ reviewCalls = 4
    /\ lastReview.card.repetitions = 3
    /\ State(lastReview.card.repetitions) = "Review"
    /\ cards[1].repetitions = 0
    /\ State(cards[1].repetitions) = "New"

(***************************************************************************)
(* Properties of the study sessions.                                       *)
(***************************************************************************)

\* The stored session i is not ended.
Open(i) == sessions[i].endTime = NoDate

\* C29: a session record is appended by startSession with its counters at
\* zero and is updated at most once afterwards, when that session ends: in
\* every step the records stored stay in place; a record that is ended stays
\* as it is; a record that changes is the record of the session the page
\* runs, which the step ends; and a record that is added is added last, not
\* ended, with cardsStudied 0 and correctAnswers 0.
C29_SessionRecords ==
    [][/\ Len(sessions') >= Len(sessions)
       /\ Len(sessions') <= Len(sessions) + 1
       /\ \A i \in 1..Len(sessions) :
             \/ sessions'[i] = sessions[i]
             \/ /\ Open(i)
                /\ page.sessionStarted
                /\ sessions[i].id = page.sessionId
                /\ ~page'.sessionStarted
                /\ sessions'[i].endTime = now
                /\ sessions'[i].id = sessions[i].id
                /\ sessions'[i].startTime = sessions[i].startTime
       /\ Len(sessions') = Len(sessions) + 1 =>
             /\ ~page.sessionStarted
             /\ page'.sessionStarted
             /\ sessions'[Len(sessions')].id = page'.sessionId
             /\ sessions'[Len(sessions')].endTime = NoDate
             /\ sessions'[Len(sessions')].cardsStudied = 0
             /\ sessions'[Len(sessions')].correctAnswers = 0
             /\ \A i \in 1..Len(sessions) : sessions[i].id # page'.sessionId]_vars

\* Two sessions were started and ended: the first by the End Session button
\* after one card, the second, a minute after its start, by rating the last
\* card of the queue; the record of the first is as its end left it.
C29_Witness ==
    /\ Len(sessions) = 2
    /\ ~page.sessionStarted
    /\ Len(page.studyQueue) = 2
    /\ sessions[1].id = 1
    /\ sessions[1].endTime = MinutesPerDay
    /\ sessions[1].cardsStudied = 1
    /\ sessions[2].id = 2
    /\ sessions[2].startTime = MinutesPerDay
    /\ sessions[2].endTime = MinutesPerDay + 1
    /\ sessions[2].cardsStudied = 2
    /\ sessions[2].correctAnswers = 1

(***************************************************************************)
(* Properties of the content of cards and of the categories.               *)
(***************************************************************************)

\* The scheduling state of a card.
Scheduling(card) ==
    [easeFactor |-> card.easeFactor, interval |-> card.interval,
     repetitions |-> card.repetitions, nextReviewDate |-> card.nextReviewDate]

\* C30: editing the content of a card, creating or renaming a category and
\* deleting a category leave the easeFactor, interval, repetitions and
\* nextReviewDate of every stored card as they were: a step that is not a
\* processReview keeps the cards stored, each with its scheduling state.
C30_OnlyReviewSchedules ==
    [][reviewCalls' = reviewCalls =>
          /\ Len(cards') = Len(cards)
          /\ \A i \in 1..Len(cards) :
                /\ cards'[i].id = cards[i].id
                /\ Scheduling(cards'[i]) = Scheduling(cards[i])]_vars

\* The reviewed card was put in a category that was then renamed, its front
\* was reworded, and the category of the other card was deleted: the card is
\* scheduled as its review left it.
C30_Witness ==
    /\ Reviewed("good")
    /\ lastReview.card.id = 1
    /\ cards[1].front = "question, reworded"
    /\ cards[1].category = "art"
    /\ Len(categories) = 1
    /\ categories[1].name = "art"
    /\ categories[1].id = 1
    /\ generated = 2
    /\ cards[2].category = NoCategory
    /\ cards[2].repetitions = 0
    /\ Scheduling(cards[1]) = Scheduling(lastReview.result)
    /\ cards[1].repetitions = 2

(***************************************************************************)
(* Properties of the stored progress over the operations.                  *)
(***************************************************************************)

\* Every date that has a DailyStat in the stored progress still has one after
\* the step.
DailyStatsKept ==
    \A i \in 1..Len(progress.dailyStats) :
        \E j \in 1..Len(progress'.dailyStats) :
            progress'.dailyStats[j].date = progress.dailyStats[i].date

\* The step is a call of importData.
IsImport == importCall' # importCall

\* C26, as claimed: no operation other than clearAllData, importData
\* included, removes a DailyStat from the stored progress.
C26_DailyStatsNeverRemoved ==
    [][ClearAllData \/ DailyStatsKept]_vars

\* C26, amended: no operation other than clearAllData and importData removes
\* a DailyStat from the stored progress.
C26_DailyStatsKeptButByImport ==
    [][ClearAllData \/ IsImport \/ DailyStatsKept]_vars

\* Reviews were made on two days, a card was created and the reviewed card
\* deleted: both days have their DailyStat.
C26_Witness ==
    /\ importCall = None
    /\ reviewCalls = 2
    /\ Len(progress.dailyStats) = 2
    /\ progress.dailyStats[1].date = 0
    /\ progress.dailyStats[2].date = 1
    /\ Len(cards) = 1
    /\ cards[1].id = 2

\* The lifetime totals of the stored progress are not lower after the step.
LifetimeNotLower ==
    LET a == progress.lifetimeStats
        b == progress'.lifetimeStats
    IN  /\ b.totalReviews >= a.totalReviews
        /\ b.correctReviews >= a.correctReviews
        /\ b.longestStreak >= a.longestStreak
        /\ b.totalCardsCreated >= a.totalCardsCreated

\* C27, as claimed: no operation other than the full reset lowers the
\* lifetime totalReviews, correctReviews, longestStreak or totalCardsCreated.
C27_LifetimeNeverLower ==
    [][ClearAllData \/ LifetimeNotLower]_vars

\* C27, amended: no operation other than the full reset and importData lowers
\* the lifetime totalReviews, correctReviews, longestStreak or
\* totalCardsCreated; the accuracy may go down.
C27_LifetimeNotLowerButByImport ==
    [][ClearAllData \/ IsImport \/ LifetimeNotLower]_vars

\* A wrong answer after a correct one: the totals are 2 and 1, not lower than
\* 1 and 1, and the accuracy went down from 100 to 50.
C27_Witness ==
    /\ Reviewed("again")
    /\ importCall = None
    /\ ~lastReview.progressWriteFailed
    /\ lastReview.progressBefore.lifetimeStats.totalReviews = 1
    /\ lastReview.progressBefore.lifetimeStats.correctReviews = 1
    /\ lastReview.progressBefore.lifetimeStats.accuracy = [n |-> 100, d |-> 1]
    /\ progress.lifetimeStats.totalReviews = 2
    /\ progress.lifetimeStats.correctReviews = 1
    /\ progress.lifetimeStats.accuracy = [n |-> 50, d |-> 1]

(***************************************************************************)
(* The forgetting curve.  A double is NaN, minus infinity or a number; a   *)
(* number the exponential yields is held by rational bounds [lo, hi] that  *)
(* enclose it (e^-x <= 1 / (1 + x) for x >= 0, and a small result may      *)
(* underflow to 0).                                                        *)
(***************************************************************************)
MaxDaysFromNow == 3

NaN == [kind |-> "nan"]
NegInfinity == [kind |-> "-inf"]
Finite(n, d) == [kind |-> "fin", n |-> n, d |-> d]
Within(lo, hi) == [kind |-> "within", lo |-> lo, hi |-> hi]

\* -daysFromNow / stability in IEEE arithmetic, stability = num / den >= 0:
\* -0 / 0 is NaN and -d / 0 is minus infinity.
negQuotient(daysFromNow, num, den) ==
    IF num = 0
    THEN IF daysFromNow = 0 THEN NaN ELSE NegInfinity
    ELSE Finite(-(daysFromNow * den), num)

\* Math.exp on an argument that is NaN, minus infinity or a number <= 0.
MathExp(x) ==
    IF x.kind = "nan" THEN NaN
    ELSE IF x.kind = "-inf" THEN Within(Frac(0, 1), Frac(0, 1))
    ELSE IF x.n = 0 THEN Within(Frac(1, 1), Frac(1, 1))
    ELSE Within(Frac(0, 1), Frac(x.d, x.d - x.n))

FracLess(a, b) == a.n * b.d < b.n * a.d
FracMin(a, b) == IF FracLess(b, a) THEN b ELSE a
FracMax(a, b) == IF FracLess(a, b) THEN b ELSE a

\* Math.min(bound, x) and Math.max(bound, x): NaN if x is NaN.
MathMin(bound, x) ==
    IF x.kind = "nan" THEN NaN
    ELSE Within(FracMin(Frac(bound, 1), x.lo), FracMin(Frac(bound, 1), x.hi))

MathMax(bound, x) ==
    IF x.kind = "nan" THEN NaN
    ELSE Within(FracMax(Frac(bound, 1), x.lo), FracMax(Frac(bound, 1), x.hi))

\* SpacedRepetitionAlgorithm.getPredictedRetention(card, daysFromNow);
\* stability = easeFactor * interval, the ease factor being in hundredths.
getPredictedRetention(card, daysFromNow) ==
    LET retention == MathExp(negQuotient(daysFromNow, card.easeFactor * card.interval, 100))
    IN  MathMax(0, MathMin(1, retention))

InUnit(x) ==
    /\ x.kind = "within"
    /\ ~FracLess(x.lo, Frac(0, 1))
    /\ ~FracLess(Frac(1, 1), x.hi)

\* C31: getPredictedRetention returns a value in [0, 1] for every stored card
\* (ease factor in [1.3, 2.5], interval >= 0, interval 0 after 'again'
\* included) and every daysFromNow >= 0.
C31_RetentionInUnit ==
    \A i \in 1..Len(cards), daysFromNow \in 0..MaxDaysFromNow :
        InUnit(getPredictedRetention(cards[i], daysFromNow))

\* The same for the cases the division is defined in.
C31_RetentionInUnitWhenDefined ==
    \A i \in 1..Len(cards), daysFromNow \in 0..MaxDaysFromNow :
        (cards[i].interval > 0 \/ daysFromNow > 0)
            => InUnit(getPredictedRetention(cards[i], daysFromNow))

\* C32: no card id occurs more than once in the sequence getStudyQueue returns.
C32_QueueIdsDistinct ==
    Queued =>
        \A i, j \in 1..Len(queueCall.queue) :
            queueCall.queue[i].id = queueCall.queue[j].id => i = j

\* The same for a store of one card that has been reviewed and is due.
C32_OneDueCardOnce ==
    (/\ Queued
     /\ Len(cards) = 1
     /\ cards[1].repetitions > 0)
    => Len(queueCall.queue) <= 1

\* A review was made in this step.
IsReview == reviewCalls' # reviewCalls

\* The stored card of this id is due or new at time t.
DueOrNew(stored, id, t) ==
    \A i \in 1..Len(stored) :
        stored[i].id = id =>
            stored[i].nextReviewDate <= t \/ stored[i].repetitions = 0

\* C33: every card passed to processReview during a study session is, as it is
\* stored at that moment, due (nextReviewDate <= now) or new (repetitions = 0).
C33_ReviewedDueOrNew ==
    [][IsReview => DueOrNew(cards, lastReview'.card.id, now)]_vars

\* The same for the first review made after the queue was loaded.
C33_FirstReviewDueOrNew ==
    [][(IsReview /\ reviewCalls = 0) => DueOrNew(cards, lastReview'.card.id, now)]_vars

\* C34: no review is lost: the card stored after a processReview is the
\* transition applied to the card as it was stored just before the call.
C34_NoReviewLost ==
    [][IsReview =>
          \A i \in 1..Len(cards) :
              cards[i].id = lastReview'.card.id =>
                  cards'[i] = updatedCardOf(cards[i], lastReview'.difficulty,
                                            lastReview'.responseTime, now)]_vars

\* The same for the first review made after the queue was loaded.
C34_FirstReviewKept ==
    [][(IsReview /\ reviewCalls = 0) =>
          \A i \in 1..Len(cards) :
              cards[i].id = lastReview'.card.id =>
                  cards'[i] = updatedCardOf(cards[i], lastReview'.difficulty,
                                            lastReview'.responseTime, now)]_vars

\* Sums over the daily records.
RECURSIVE sumCardsStudied(_)
sumCardsStudied(stats) ==
    IF stats = << >> THEN 0
    ELSE Head(stats).cardsStudied + sumCardsStudied(Tail(stats))

RECURSIVE sumCorrectAnswers(_)
sumCorrectAnswers(stats) ==
    IF stats = << >> THEN 0
    ELSE Head(stats).correctAnswers + sumCorrectAnswers(Tail(stats))

\* C35: starting from empty progress, after any sequence of processReview
\* calls lifetime totalReviews is the sum of cardsStudied over the daily
\* records and lifetime correctReviews the sum of correctAnswers;
\* correctAnswers <= cardsStudied for every day, and correctReviews <=
\* totalReviews for lifetime and for every card.
C35_TotalsAreSums ==
    /\ progress.lifetimeStats.totalReviews = sumCardsStudied(progress.dailyStats)
    /\ progress.lifetimeStats.correctReviews = sumCorrectAnswers(progress.dailyStats)
    /\ \A k \in 1..Len(progress.dailyStats) :
          progress.dailyStats[k].correctAnswers <= progress.dailyStats[k].cardsStudied
    /\ progress.lifetimeStats.correctReviews <= progress.lifetimeStats.totalReviews
    /\ \A i \in 1..Len(cards) : cards[i].correctReviews <= cards[i].totalReviews

\* Three reviews over two days, the last one answered 'again': lifetime
\* counts three reviews, two of them correct, in two daily records.
C35_Witness ==
    /\ Reviewed("again")
    /\ Len(progress.dailyStats) = 2
    /\ progress.lifetimeStats.totalReviews = 3
    /\ progress.lifetimeStats.correctReviews = 2
    /\ cards[1].totalReviews = 3
    /\ cards[1].correctReviews = 2

\* The intervals of the four grades are ordered for this card.
IntervalsOrdered(card, t) ==
    LET again == calculateNext(card, "again", t).interval
        hard == calculateNext(card, "hard", t).interval
        good == calculateNext(card, "good", t).interval
        easy == calculateNext(card, "easy", t).interval
    IN  /\ again = 0
        /\ again <= hard
        /\ hard <= good
        /\ good <= easy

\* C36: for every card state with easeFactor in [1.3, 2.5], the interval of
\* 'hard' is <= the interval of 'good', which is <= the interval of 'easy',
\* and 'again' gives the smallest, 0.
C36_GradesOrdered ==
    \A i \in 1..Len(cards) : IntervalsOrdered(cards[i], now)

\* The same for the cards whose interval is at least a day or that have
\* fewer than two repetitions.
C36_GradesOrderedFromOneDay ==
    \A i \in 1..Len(cards) :
        (cards[i].interval >= 1 \/ cards[i].repetitions < 2)
            => IntervalsOrdered(cards[i], now)

\* C37: for a card created by CardStorage.add and reviewed any number of
\* times, the interval is a non-negative integer, a review yields interval 0
\* exactly when it was 'again', and for a card with repetitions >= 2 a review
\* other than 'again' never yields an interval smaller than the one before.
C37_IntervalSound ==
    /\ \A i \in 1..Len(cards) : cards[i].interval \in Nat
    /\ \A i \in 1..Len(cards) :
          cards[i].totalReviews = 0 => cards[i].interval > 0
    /\ lastReview # None =>
          /\ lastReview.result.interval \in Nat
          /\ lastReview.result.interval = 0 <=> lastReview.difficulty = "again"
          /\ ~lastReview.cardWriteFailed => cards[1].interval = lastReview.result.interval
          /\ (lastReview.card.repetitions >= 2 /\ lastReview.difficulty # "again")
                => lastReview.result.interval >= lastReview.card.interval

\* 'hard' on a card answered 'good' twice (interval 6, repetitions 2): the
\* ease factor falls to 2.35 and the interval grows to round(11.28) = 11.
C37_Witness ==
    /\ Reviewed("hard")
    /\ ~lastReview.cardWriteFailed
    /\ lastReview.card.repetitions = 2
    /\ lastReview.card.interval = 6
    /\ cards[1].interval = 11
    /\ cards[1].repetitions = 3

(***************************************************************************)
(* Properties of the order of ratings in a session.                        *)
(***************************************************************************)

\* 1 if this step rated a card otherwise than 'again', else 0.
CorrectNow == IF IsReview /\ lastReview'.difficulty # "again" THEN 1 ELSE 0

\* 1 if this step rated a card, else 0.
StudiedNow == IF IsReview THEN 1 ELSE 0

\* C38: within one study session ratings are processed strictly in queue
\* order.  A review is made only while a session is started and the index is
\* inside the queue; it reviews the card at the current index and advances
\* the index by one, or ends the session when the last index was rated; a
\* session starts at index 0 with its counters at zero, so that the index is
\* the number of ratings accepted in the session; and the record stored at
\* the end of a session has that number as cardsStudied and the number of
\* ratings other than 'again' as correctAnswers (the record stays as it was
\* when the End Session button's write fails).
C38_RatingsInQueueOrder ==
    /\ [](page.sessionStarted =>
            /\ page.currentCardIndex < Len(page.studyQueue)
            /\ page.sessionStats.studied = page.currentCardIndex
            /\ page.sessionStats.correct <= page.sessionStats.studied)
    /\ [](~page.sessionStarted => page.currentCardIndex = 0)
    /\ [][/\ IsReview =>
                /\ page.sessionStarted
                /\ page.currentCardIndex < Len(page.studyQueue)
                /\ lastReview'.card = page.studyQueue[page.currentCardIndex + 1]
                /\ page'.studyQueue = page.studyQueue
                /\ page'.sessionStats.correct = page.sessionStats.correct + CorrectNow
                /\ IF page.currentCardIndex + 1 = Len(page.studyQueue)
                   THEN ~page'.sessionStarted
                   ELSE /\ page'.sessionStarted
                        /\ page'.currentCardIndex = page.currentCardIndex + 1
          /\ (~page.sessionStarted /\ page'.sessionStarted) =>
                /\ page'.currentCardIndex = 0
                /\ page'.sessionStats.studied = 0
                /\ page'.sessionStats.correct = 0
          /\ (page.sessionStarted /\ ~page'.sessionStarted) =>
                \A i \in 1..Len(sessions) :
                    sessions[i].id = page.sessionId =>
                        \/ ~IsReview /\ sessions'[i] = sessions[i]
                        \/ /\ sessions'[i].cardsStudied
                                = page.currentCardIndex + StudiedNow
                           /\ sessions'[i].correctAnswers
                                = page.sessionStats.correct + CorrectNow]_vars

\* A session over a queue of two cards has ended by the rating of the second
\* card, rated 'again' after a first card rated 'good': its record counts
\* two cards studied and one correct answer.
C38_Witness ==
    /\ Reviewed("again")
    /\ reviewCalls = 2
    /\ ~page.sessionStarted
    /\ Len(page.studyQueue) = 2
    /\ lastReview.card = page.studyQueue[2]
    /\ Len(sessions) = 1
    /\ sessions[1].endTime # NoDate
    /\ sessions[1].cardsStudied = 2
    /\ sessions[1].correctAnswers = 1

(***************************************************************************)
(* Properties of what a review leaves alone.                               *)
(***************************************************************************)

\* The ids of the stored cards.
StoredIds(stored) == {stored[i].id : i \in 1..Len(stored)}

\* Ids the pages may pass: those of the two cards and one never stored.
FrameIds == 1..3

\* C39: processReview changes at most the stored record of the reviewed
\* card: the stored ids are the same before and after (a card deleted from
\* storage is not re-created) and every other card is unchanged; and
\* CardStorage.update and CardStorage.delete on an id that is not stored
\* return null and false and leave the card collection unchanged.
C39_ReviewFrame ==
    /\ [][IsReview =>
            /\ Len(cards') = Len(cards)
            /\ StoredIds(cards') = StoredIds(cards)
            /\ \A i \in 1..Len(cards) :
                  /\ cards'[i].id = cards[i].id
                  /\ cards[i].id # lastReview'.card.id => cards'[i] = cards[i]]_vars
    /\ [](\A id \in FrameIds \ StoredIds(cards), writeOk \in BOOLEAN :
            /\ CardStorageUpdate(cards, id, [streak |-> 0], writeOk) = cards
            /\ CardStorageUpdateReturn(cards, id, [streak |-> 0]) = JsonNull
            /\ CardStorageDelete(cards, id, writeOk) = cards
            /\ CardStorageDeleteReturn(cards, id) = FALSE)

\* The card of the queue with id 1 was reviewed after it had been deleted
\* from a store that still holds card 2: the store is as it was.
C39_Witness ==
    /\ Reviewed("good")
    /\ lastReview.card.id = 1
    /\ Queued
    /\ StoredIds(cards) = {2}
    /\ ~lastReview.cardWriteFailed
    /\ cards[1] = newOnlyCard(2)

====
